---- MODULE Spec2Model ----
(***************************************************************************)
(* A model of BaseAgentCrypto (agent/base_agent_crypto/base_agent_crypto.py):*)
(* the order validation, precision formatting and position sizing methods   *)
(* of the crypto trading agent, as a state machine whose actions are the    *)
(* method calls.  Python values are modelled with their Python semantics:   *)
(*   - a float is named by its shortest repr, the decimal c * 10^x;         *)
(*   - float arithmetic is IEEE-754 binary64 (round to nearest, ties to     *)
(*     even) on exact big naturals;                                         *)
(*   - decimal.Decimal is exact, with the default context (28 digits);      *)
(*   - an exception is an outcome [raised |-> TRUE, ...] that propagates    *)
(*     until a try/except catches it.                                       *)
(* String literals of the source that are not ASCII are transliterated:     *)
(*   "买入" -> "MAIRU", "卖出" -> "MAICHU",                                   *)
(*   "不支持的交易对: " -> "UNSUPPORTED_PAIR: ",                              *)
(*   "订单数量必须大于0" -> "QUANTITY_MUST_BE_POSITIVE",                      *)
(*   " 最小交易量为 " -> " MIN_QUANTITY_IS ",                                 *)
(*   "美股市场配置" -> "US_MARKET_CONFIG", "A股市场配置" ->                    *)
(*   "CN_MARKET_CONFIG", "数字货币市场配置" -> "CRYPTO_MARKET_CONFIG", and    *)
(*   the descriptions and error messages of the configuration manager       *)
(*   likewise.                                                              *)
(***************************************************************************)
EXTENDS Integers, Sequences, FiniteSets, TLC

VARIABLES trading_pairs, precision_config, risk_config, testnet_enabled, clock, call, ret,
          issued,
          config_files, multi_mode_config, active_config, local_quickstart,
          BINANCE_TESTNET, create_order_calls

vars == <<trading_pairs, precision_config, risk_config, testnet_enabled, clock, call, ret,
          issued,
          config_files, multi_mode_config, active_config, local_quickstart,
          BINANCE_TESTNET, create_order_calls>>

\* The files of the configuration directory, and local_quickstart.json.
Disk == <<config_files, multi_mode_config, active_config, local_quickstart>>

\* The module state of tool_binance and the orders its client has sent.
Exchange == <<BINANCE_TESTNET, create_order_calls>>

(***************************************************************************)
(* Outcomes of a Python call: a returned value or a raised exception.       *)
(***************************************************************************)
\* What a call leaves for its caller: the method called and its outcome.
Result(op, outcome) == [op |-> op, raised |-> outcome.raised, val |-> outcome.val]

\* The outcome of an evaluation: the value returned, or the exception raised.
Return(v) == [raised |-> FALSE, val |-> v]

Raise(type, msg) == [raised |-> TRUE, val |-> [type |-> type, msg |-> msg]]

(***************************************************************************)
(* JSON documents and files.  A JSON value is a record whose one field names *)
(* its Python type; a file is absent, holds a JSON value, or holds text that *)
(* json.load rejects.                                                       *)
(***************************************************************************)
Str(s) == [str |-> s]

Num(n) == [int |-> n]

Bool(b) == [bool |-> b]

List(items) == [list |-> items]

\* A dict, as the function from its keys to its values.
Dict(m) == [dict |-> m]

EmptyDict == Dict(<<>>)

\* Path.exists() is False.
NoFile == [absent |-> TRUE]

\* The file exists and json.load raises JSONDecodeError on it.
Garbage == [garbage |-> TRUE]

exists(file) == file # NoFile

isinstance_dict(value) == "dict" \in DOMAIN value

isinstance_list(value) == "list" \in DOMAIN value

isinstance_str(value) == "str" \in DOMAIN value

\* key in d, for a dict d.
In(key, d) == key \in DOMAIN d.dict

\* self.config_templates: the markets that have a config file name.
config_templates == {"us", "cn", "crypto"}

\* A directory in which no configuration file has been created.
NoFiles ==
    /\ config_files = [market \in config_templates |-> NoFile]
    /\ multi_mode_config = NoFile
    /\ active_config = NoFile
    /\ local_quickstart = NoFile

\* BINANCE_TESTNET defaults to 'true'; no order has been sent.
NoOrders ==
    /\ BINANCE_TESTNET = TRUE
    /\ create_order_calls = <<>>

\* A statement that may raise, followed by the rest of the block.
Bind(o, F(_)) == IF o.raised THEN o ELSE F(o.val)

\* try: o  except Exception as e: H(e)
Except(o, H(_)) == IF o.raised THEN H(o.val) ELSE o

(***************************************************************************)
(* Python numbers.  k = "fin": the finite float whose repr is c * 10^x      *)
(* (c has no trailing zero, 0 is c = 0, x = 0); "nan", "inf", "ninf": the   *)
(* float specials; "none": an argument that is not a number (None).         *)
(***************************************************************************)
RECURSIVE Pow10(_)
Pow10(n) == IF n <= 0 THEN 1 ELSE 10 * Pow10(n - 1)

RECURSIVE NumDigits(_)
NumDigits(c) == IF c < 0 THEN NumDigits(-c) ELSE IF c < 10 THEN 1 ELSE 1 + NumDigits(c \div 10)

Abs(n) == IF n < 0 THEN -n ELSE n

Sign(n) == IF n < 0 THEN -1 ELSE IF n = 0 THEN 0 ELSE 1

\* Division truncating toward zero (TLA+'s \div floors).
TruncDiv(a, b) == Sign(a) * (Abs(a) \div b)

RECURSIVE Normal(_, _)
Normal(c, x) ==
    IF c = 0 THEN [k |-> "fin", c |-> 0, x |-> 0]
    ELSE IF c % 10 = 0 THEN Normal(c \div 10, x + 1)
    ELSE [k |-> "fin", c |-> c, x |-> x]

Fin(c, x) == Normal(c, x)

NaN == [k |-> "nan", c |-> 0, x |-> 0]

Inf == [k |-> "inf", c |-> 0, x |-> 0]

NegInf == [k |-> "ninf", c |-> 0, x |-> 0]

PyNone == [k |-> "none", c |-> 0, x |-> 0]

\* Exact comparison of two finite decimals: -1, 0 or 1.
CmpFin(a, b) ==
    IF Sign(a.c) # Sign(b.c) THEN (IF Sign(a.c) < Sign(b.c) THEN -1 ELSE 1)
    ELSE IF a.c = 0 THEN 0
    ELSE LET ma == NumDigits(a.c) + a.x
             mb == NumDigits(b.c) + b.x
             s  == Sign(a.c)
         IN IF ma # mb THEN (IF ma < mb THEN -s ELSE s)
            ELSE LET lo == IF a.x < b.x THEN a.x ELSE b.x
                     ca == Abs(a.c) * Pow10(a.x - lo)
                     cb == Abs(b.c) * Pow10(b.x - lo)
                 IN IF ca = cb THEN 0 ELSE IF ca < cb THEN -s ELSE s

\* Python's a < b and a <= b on floats: FALSE whenever an operand is nan;
\* TypeError when an operand is None.
\* PyLess with the comparison written <= instead of <.
PyLess_OrEqual(a, b) ==
    IF a.k = "none" \/ b.k = "none"
    THEN Raise("TypeError", "'<' not supported between instances")
    ELSE Return(CASE a.k = "nan" \/ b.k = "nan" -> FALSE
                  [] a.k = "ninf" -> TRUE
                  [] a.k = "inf" -> b.k = "inf"
                  [] b.k = "inf" -> TRUE
                  [] b.k = "ninf" -> FALSE
                  [] OTHER -> CmpFin(a, b) <= 0)

PyLess(a, b) ==
    IF a.k = "none" \/ b.k = "none"
    THEN Raise("TypeError", "'<' not supported between instances")
    ELSE Return(CASE a.k = "nan" \/ b.k = "nan" -> FALSE
                  [] a.k = "inf" -> FALSE
                  [] a.k = "ninf" -> b.k # "ninf"
                  [] b.k = "inf" -> TRUE
                  [] b.k = "ninf" -> FALSE
                  [] OTHER -> CmpFin(a, b) < 0)

\* PyLessEq with the comparison written < instead of <=.
PyLessEq_Strict(a, b) ==
    IF a.k = "none" \/ b.k = "none"
    THEN Raise("TypeError", "'<=' not supported between instances")
    ELSE Return(CASE a.k = "nan" \/ b.k = "nan" -> FALSE
                  [] a.k = "inf" -> FALSE
                  [] a.k = "ninf" -> b.k # "ninf"
                  [] b.k = "inf" -> TRUE
                  [] b.k = "ninf" -> FALSE
                  [] OTHER -> CmpFin(a, b) < 0)

PyLessEq(a, b) ==
    IF a.k = "none" \/ b.k = "none"
    THEN Raise("TypeError", "'<=' not supported between instances")
    ELSE Return(CASE a.k = "nan" \/ b.k = "nan" -> FALSE
                  [] a.k = "ninf" -> TRUE
                  [] a.k = "inf" -> b.k = "inf"
                  [] b.k = "inf" -> TRUE
                  [] b.k = "ninf" -> FALSE
                  [] OTHER -> CmpFin(a, b) <= 0)

(***************************************************************************)
(* Big naturals: a sequence of limbs, least significant first, base 2^15,   *)
(* without leading zero limbs (<<>> is 0).  They carry the 53-bit           *)
(* significands of binary64 and their exact products and quotients.         *)
(***************************************************************************)
BigBase == 2^15

RECURSIVE Pow2(_)
Pow2(n) == IF n <= 0 THEN 1 ELSE 2 * Pow2(n - 1)

RECURSIVE BigTrim(_)
BigTrim(a) ==
    IF Len(a) > 0 /\ a[Len(a)] = 0 THEN BigTrim(SubSeq(a, 1, Len(a) - 1)) ELSE a

RECURSIVE BigOfInt(_)
BigOfInt(n) == IF n = 0 THEN <<>> ELSE <<n % BigBase>> \o BigOfInt(n \div BigBase)

RECURSIVE BigToInt(_)
BigToInt(a) == IF Len(a) = 0 THEN 0 ELSE a[1] + BigBase * BigToInt(Tail(a))

Limb(a, i) == IF i <= Len(a) THEN a[i] ELSE 0

Rest(a) == IF Len(a) = 0 THEN <<>> ELSE Tail(a)

RECURSIVE BigAddC(_, _, _)
BigAddC(a, b, carry) ==
    IF Len(a) = 0 /\ Len(b) = 0 THEN (IF carry = 0 THEN <<>> ELSE <<carry>>)
    ELSE LET s == Limb(a, 1) + Limb(b, 1) + carry
         IN <<s % BigBase>> \o BigAddC(Rest(a), Rest(b), s \div BigBase)

BigAdd(a, b) == BigAddC(a, b, 0)

\* a - b for a >= b.
RECURSIVE BigSubB(_, _, _)
BigSubB(a, b, borrow) ==
    IF Len(a) = 0 THEN <<>>
    ELSE LET d == a[1] - Limb(b, 1) - borrow
         IN <<d % BigBase>> \o BigSubB(Tail(a), Rest(b), IF d < 0 THEN 1 ELSE 0)

BigSub(a, b) == BigTrim(BigSubB(a, b, 0))

RECURSIVE BigCmpAt(_, _, _)
BigCmpAt(a, b, i) ==
    IF i = 0 THEN 0
    ELSE IF a[i] # b[i] THEN (IF a[i] < b[i] THEN -1 ELSE 1)
    ELSE BigCmpAt(a, b, i - 1)

BigCmp(a, b) ==
    IF Len(a) # Len(b) THEN (IF Len(a) < Len(b) THEN -1 ELSE 1)
    ELSE BigCmpAt(a, b, Len(a))

\* a * k + carry for a small k (k <= 2^15).
RECURSIVE BigMulSmallC(_, _, _)
BigMulSmallC(a, k, carry) ==
    IF Len(a) = 0 THEN (IF carry = 0 THEN <<>> ELSE BigOfInt(carry))
    ELSE LET p == a[1] * k + carry
         IN <<p % BigBase>> \o BigMulSmallC(Tail(a), k, p \div BigBase)

BigMulSmall(a, k) == IF k = 0 THEN <<>> ELSE BigMulSmallC(a, k, 0)

RECURSIVE BigMul(_, _)
BigMul(a, b) ==
    IF Len(a) = 0 \/ Len(b) = 0 THEN <<>>
    ELSE BigTrim(BigAdd(BigMulSmall(a, b[1]), <<0>> \o BigMul(a, Tail(b))))

\* <<quotient, remainder>> of a by a small k (0 < k <= 2^15), from the top limb.
RECURSIVE BigDivSmallAt(_, _, _, _)
BigDivSmallAt(a, k, i, rem) ==
    IF i = 0 THEN <<(<<>>), rem>>
    ELSE LET cur  == rem * BigBase + a[i]
             next == BigDivSmallAt(a, k, i - 1, cur % k)
         IN <<next[1] \o <<cur \div k>>, next[2]>>

BigDivSmall(a, k) ==
    LET r == BigDivSmallAt(a, k, Len(a), 0) IN <<BigTrim(r[1]), r[2]>>

RECURSIVE BigMulPow10(_, _)
BigMulPow10(a, n) == IF n <= 0 THEN a ELSE BigMulPow10(BigMulSmall(a, 10), n - 1)

\* <<floor(a / 10^n), whether anything was cut off>>.
RECURSIVE BigDivPow10(_, _, _)
BigDivPow10(a, n, inexact) ==
    IF n <= 0 THEN <<a, inexact>>
    ELSE LET d == BigDivSmall(a, 10) IN BigDivPow10(d[1], n - 1, inexact \/ d[2] # 0)

RECURSIVE Zeros(_)
Zeros(n) == IF n <= 0 THEN <<>> ELSE <<0>> \o Zeros(n - 1)

\* a * 2^n and floor(a / 2^n).
BigShl(a, n) ==
    IF Len(a) = 0 THEN <<>> ELSE Zeros(n \div 15) \o BigMulSmall(a, Pow2(n % 15))

BigShr(a, n) ==
    IF Len(a) <= n \div 15 THEN <<>>
    ELSE BigDivSmall(SubSeq(a, (n \div 15) + 1, Len(a)), Pow2(n % 15))[1]

RECURSIVE BitLenInt(_)
BitLenInt(n) == IF n = 0 THEN 0 ELSE 1 + BitLenInt(n \div 2)

BigBitLen(a) == IF Len(a) = 0 THEN 0 ELSE 15 * (Len(a) - 1) + BitLenInt(a[Len(a)])

BigIsOdd(a) == Len(a) > 0 /\ a[1] % 2 = 1

\* Bit i (1 is the least significant) of a.
BigBit(a, i) == (Limb(a, ((i - 1) \div 15) + 1) \div Pow2((i - 1) % 15)) % 2

\* Long division, one bit of a at a time from bit i down: <<quotient, remainder>>
\* given the quotient q and remainder r of the bits above i.  (The test on the
\* lengths only makes each step's values be computed before the next step.)
RECURSIVE BigDivModAt(_, _, _, _, _)
BigDivModAt(a, b, i, q, r) ==
    IF i = 0 THEN <<q, r>>
    ELSE LET r2  == BigAdd(BigMulSmall(r, 2), BigOfInt(BigBit(a, i)))
             geq == BigCmp(r2, b) >= 0
             q3  == BigAdd(BigMulSmall(q, 2), IF geq THEN <<1>> ELSE <<>>)
             r3  == IF geq THEN BigSub(r2, b) ELSE r2
         IN IF Len(q3) + Len(r3) >= 0 THEN BigDivModAt(a, b, i - 1, q3, r3)
            ELSE <<q3, r3>>

RECURSIVE BigTrailingZeros(_)
BigTrailingZeros(a) ==
    IF Len(a) = 0 THEN 0
    ELSE IF a[1] = 0 THEN 15 + BigTrailingZeros(Tail(a))
    ELSE IF a[1] % 2 = 0 THEN 1 + BigTrailingZeros(<<a[1] \div 2>>)
    ELSE 0

\* <<floor(a / b), a mod b>> for b > 0.  A divisor odd * 2^t with a one-limb odd
\* part is divided limb by limb; otherwise bit by bit, where the bits of a above
\* the length of b are below b and start as the remainder.
BigDivMod(a, b) ==
    LET t   == BigTrailingZeros(b)
        odd == BigShr(b, t)
        top == BigBitLen(a) - BigBitLen(b) + 1
    IN IF Len(odd) = 1
       THEN LET hi == BigShr(a, t)
                d  == BigDivSmall(hi, odd[1])
            IN <<d[1], BigAdd(BigShl(BigOfInt(d[2]), t), BigSub(a, BigShl(hi, t)))>>
       ELSE IF top <= 0 THEN <<(<<>>), a>>
       ELSE BigDivModAt(a, b, top, <<>>, BigShr(a, top))

(***************************************************************************)
(* binary64 values: cls = "num" is (-1)^neg * m * 2^e with 2^52 <= m < 2^53;*)
(* "zero", "nan", "inf" are the specials.  The sign of a zero and the       *)
(* subnormal range are not modelled (no modelled input reaches them).       *)
(***************************************************************************)
BZero == [cls |-> "zero", neg |-> FALSE, m |-> <<>>, e |-> 0]

BNaN == [cls |-> "nan", neg |-> FALSE, m |-> <<>>, e |-> 0]

BInf(neg) == [cls |-> "inf", neg |-> neg, m |-> <<>>, e |-> 0]

BNum(neg, m, e) == [cls |-> "num", neg |-> neg, m |-> m, e |-> e]

\* N * 2^e, plus a fraction of one unit of N when sticky, rounded to the nearest
\* binary64, ties to even.  A sticky N has more than 54 bits.
RoundBin(neg, N, e, sticky) ==
    IF Len(N) = 0 THEN BZero
    ELSE LET L == BigBitLen(N)
         IN IF L <= 53 THEN BNum(neg, BigShl(N, 53 - L), e - (53 - L))
            ELSE LET sh    == L - 53
                     q     == BigShr(N, sh)
                     r     == BigSub(N, BigShl(q, sh))
                     c     == BigCmp(r, BigShl(<<1>>, sh - 1))
                     up    == c > 0 \/ (c = 0 /\ (sticky \/ BigIsOdd(q)))
                     q2    == IF up THEN BigAdd(q, <<1>>) ELSE q
                     carry == BigBitLen(q2) > 53
                     e2    == e + sh + (IF carry THEN 1 ELSE 0)
                 IN IF e2 > 1023 - 52 THEN BInf(neg)
                    ELSE BNum(neg, IF carry THEN BigShr(q2, 1) ELSE q2, e2)

\* The binary64 a Python float literal (or float(Decimal)) c * 10^x denotes.
ToBin(v) ==
    CASE v.k = "nan" -> BNaN
      [] v.k = "inf" -> BInf(FALSE)
      [] v.k = "ninf" -> BInf(TRUE)
      [] v.c = 0 -> BZero
      [] v.x >= 0 -> RoundBin(v.c < 0, BigMulPow10(BigOfInt(Abs(v.c)), v.x), 0, FALSE)
      [] OTHER -> LET n  == -v.x
                      sh == 56 + 4 * n
                      d  == BigDivPow10(BigShl(BigOfInt(Abs(v.c)), sh), n, FALSE)
                  IN RoundBin(v.c < 0, d[1], -sh, d[2])

BinNeg(a) == [a EXCEPT !.neg = ~a.neg]

\* float.__mul__
BinMul(a, b) ==
    CASE a.cls = "nan" \/ b.cls = "nan" -> BNaN
      [] a.cls = "inf" \/ b.cls = "inf" ->
            IF a.cls = "zero" \/ b.cls = "zero" THEN BNaN ELSE BInf(a.neg # b.neg)
      [] a.cls = "zero" \/ b.cls = "zero" -> BZero
      [] OTHER -> RoundBin(a.neg # b.neg, BigMul(a.m, b.m), a.e + b.e, FALSE)

\* float.__truediv__: an outcome, ZeroDivisionError for a zero divisor.
BinDiv(a, b) ==
    IF b.cls = "zero" THEN Raise("ZeroDivisionError", "float division by zero")
    ELSE Return(
        CASE a.cls = "nan" \/ b.cls = "nan" -> BNaN
          [] a.cls = "inf" -> IF b.cls = "inf" THEN BNaN ELSE BInf(a.neg # b.neg)
          [] b.cls = "inf" -> BZero
          [] a.cls = "zero" -> BZero
          [] OTHER -> LET d == BigDivMod(BigShl(a.m, 56), b.m)
                      IN RoundBin(a.neg # b.neg, d[1], a.e - b.e - 56, Len(d[2]) > 0))

\* float.__add__ and float.__sub__
BinAdd(a, b) ==
    CASE a.cls = "nan" \/ b.cls = "nan" -> BNaN
      [] a.cls = "inf" -> IF b.cls = "inf" /\ a.neg # b.neg THEN BNaN ELSE a
      [] b.cls = "inf" -> b
      [] a.cls = "zero" -> b
      [] b.cls = "zero" -> a
      [] OTHER -> LET e0 == IF a.e < b.e THEN a.e ELSE b.e
                      A  == BigShl(a.m, a.e - e0)
                      B  == BigShl(b.m, b.e - e0)
                      c  == BigCmp(A, B)
                  IN IF a.neg = b.neg THEN RoundBin(a.neg, BigAdd(A, B), e0, FALSE)
                     ELSE IF c = 0 THEN BZero
                     ELSE IF c > 0 THEN RoundBin(a.neg, BigSub(A, B), e0, FALSE)
                     ELSE RoundBin(b.neg, BigSub(B, A), e0, FALSE)

BinSub(a, b) == BinAdd(a, BinNeg(b))

(***************************************************************************)
(* decimal.Decimal: [k, c, x] as for the floats, but x is kept as given     *)
(* (Decimal('1.000000') is c = 1000000, x = -6).                            *)
(***************************************************************************)
\* The default context's precision, getcontext().prec.
DecimalPrec == 28

InvalidOperationMsg == "[<class 'decimal.InvalidOperation'>]"

ConversionSyntaxMsg == "[<class 'decimal.ConversionSyntax'>]"

RECURSIVE BigNumDigits(_)
BigNumDigits(a) == IF Len(a) = 0 THEN 0 ELSE 1 + BigNumDigits(BigDivSmall(a, 10)[1])

\* quantize with rounding=ROUND_HALF_UP in place of ROUND_DOWN.
QuantizeDown_HalfUp(v, digits) ==
    CASE v.k = "none" -> Raise("InvalidOperation", ConversionSyntaxMsg)
      [] v.k = "nan" -> Return(NaN)
      [] v.k \in {"inf", "ninf"} -> Raise("InvalidOperation", InvalidOperationMsg)
      [] v.c = 0 -> Return([k |-> "fin", c |-> 0, x |-> -digits])
      [] v.x + digits >= 0 ->
            IF NumDigits(v.c) + v.x + digits > DecimalPrec
            THEN Raise("InvalidOperation", InvalidOperationMsg)
            ELSE Return([k |-> "fin", c |-> v.c * Pow10(v.x + digits), x |-> -digits])
      [] OTHER ->
            LET drop == -(v.x + digits)
            IN Return([k |-> "fin",
                       c |-> Sign(v.c) * ((Abs(v.c) + 5 * Pow10(drop - 1)) \div Pow10(drop)),
                       x |-> -digits])

\* quantize of Decimal(v), the exact binary value of the float, in place of
\* Decimal(str(v)).
QuantizeDown_OfBinary(v, digits) ==
    CASE v.k = "none" -> Raise("InvalidOperation", ConversionSyntaxMsg)
      [] v.k = "nan" -> Return(NaN)
      [] v.k \in {"inf", "ninf"} -> Raise("InvalidOperation", InvalidOperationMsg)
      [] v.c = 0 -> Return([k |-> "fin", c |-> 0, x |-> -digits])
      [] v.x >= 0 ->
            IF NumDigits(v.c) + v.x + digits > DecimalPrec
            THEN Raise("InvalidOperation", InvalidOperationMsg)
            ELSE Return([k |-> "fin", c |-> v.c * Pow10(v.x + digits), x |-> -digits])
      [] OTHER ->
            LET b == ToBin(v)
                n == BigToInt(BigShr(BigMulPow10(b.m, digits), -b.e))
            IN Return([k |-> "fin", c |-> Sign(v.c) * n, x |-> -digits])

\* Decimal(str(v)).quantize(Decimal('0.' + '0' * digits), rounding=ROUND_DOWN) for
\* a float v named by its repr: towards zero; InvalidOperation when v is not a
\* number, is infinite, or the result has more than DecimalPrec digits.
QuantizeDown(v, digits) ==
    CASE v.k = "none" -> Raise("InvalidOperation", ConversionSyntaxMsg)
      [] v.k = "nan" -> Return(NaN)
      [] v.k \in {"inf", "ninf"} -> Raise("InvalidOperation", InvalidOperationMsg)
      [] v.c = 0 -> Return([k |-> "fin", c |-> 0, x |-> -digits])
      [] v.x + digits >= 0 ->
            IF NumDigits(v.c) + v.x + digits > DecimalPrec
            THEN Raise("InvalidOperation", InvalidOperationMsg)
            ELSE Return([k |-> "fin", c |-> v.c * Pow10(v.x + digits), x |-> -digits])
      [] OTHER -> Return([k |-> "fin", c |-> TruncDiv(v.c, Pow10(-(v.x + digits))),
                          x |-> -digits])

\* The same for a float computed in binary64, whose repr is the shortest decimal
\* that rounds to it: with q = floor(|b| * 10^digits), the repr is (q + 1) / 10^digits
\* when that rounds to b (the repr then has no further digits), and otherwise lies
\* in [q, q + 1) / 10^digits.  For |b| < 2^52 with an ulp below 10^-digits.
QuantizeDownBin(b, digits) ==
    CASE b.cls = "nan" -> Return(NaN)
      [] b.cls = "inf" -> Raise("InvalidOperation", InvalidOperationMsg)
      [] b.cls = "zero" -> Return([k |-> "fin", c |-> 0, x |-> -digits])
      [] b.e >= 0 ->
            LET N == BigMulPow10(BigShl(b.m, b.e), digits)
            IN IF BigNumDigits(N) > DecimalPrec
               THEN Raise("InvalidOperation", InvalidOperationMsg)
               ELSE Return([k |-> "fin", c |-> (IF b.neg THEN -1 ELSE 1) * BigToInt(N),
                            x |-> -digits])
      [] OTHER ->
            LET A    == BigMulPow10(b.m, digits)
                sh   == -b.e
                q    == BigShr(A, sh)
                rem  == BigSub(A, BigShl(q, sh))
                gap2 == BigMulSmall(BigSub(BigShl(<<1>>, sh), rem), 2)
                c    == BigCmp(gap2, BigOfInt(Pow10(digits)))
                up   == c < 0 \/ (c = 0 /\ ~BigIsOdd(b.m))
                n    == BigToInt(IF up THEN BigAdd(q, <<1>>) ELSE q)
            IN Return([k |-> "fin", c |-> (IF b.neg THEN -n ELSE n), x |-> -digits])

\* float(d) of a Decimal d: the float named by d's value.
FloatOfDecimal(d) == IF d.k = "fin" THEN Normal(d.c, d.x) ELSE d

(***************************************************************************)
(* Strings.  A symbol is a string; NoneSym stands for a symbol argument     *)
(* that is not a str (None).  str.upper() and str.lower() are given on the  *)
(* modelled symbols.  A formatted string is the sequence of its parts, ""   *)
(* is <<>>, and str(x) of a number x is StrOf(x).                           *)
(***************************************************************************)
NoneSym == "<None>"

SymbolInputs ==
    {"BTCUSDT", "btcusdt", "BtcUsdt", "ADAUSDT", "adausdt", "XRPUSDT", "LINKUSDT",
     "DOGEUSDT", "dogeusdt", NoneSym}

ToUpper(s) ==
    CASE s \in {"btcusdt", "BtcUsdt"} -> "BTCUSDT"
      [] s = "adausdt" -> "ADAUSDT"
      [] s = "dogeusdt" -> "DOGEUSDT"
      [] OTHER -> s

ToLower(s) ==
    CASE s \in {"BTCUSDT", "BtcUsdt"} -> "btcusdt"
      [] s = "ADAUSDT" -> "adausdt"
      [] s = "XRPUSDT" -> "xrpusdt"
      [] s = "LINKUSDT" -> "linkusdt"
      [] s = "DOGEUSDT" -> "dogeusdt"
      [] OTHER -> s

upper(symbol) ==
    IF symbol = NoneSym
    THEN Raise("AttributeError", "'NoneType' object has no attribute 'upper'")
    ELSE Return(ToUpper(symbol))

lower(symbol) ==
    IF symbol = NoneSym
    THEN Raise("AttributeError", "'NoneType' object has no attribute 'lower'")
    ELSE Return(ToLower(symbol))

StrOf(v) == [str |-> v]

InList(x, l) == \E i \in 1..Len(l) : l[i] = x

(***************************************************************************)
(* BaseAgentCrypto.__init__: the instance fields.                           *)
(***************************************************************************)
InitTradingPairs ==
    <<"BTCUSDT", "ETHUSDT", "BNBUSDT", "ADAUSDT", "DOTUSDT",
      "XRPUSDT", "LTCUSDT", "LINKUSDT", "BCHUSDT", "XLMUSDT">>

InitPrecisionConfig ==
    ("BTCUSDT" :> [quantity |-> 6, price |-> 2]) @@
    ("ETHUSDT" :> [quantity |-> 5, price |-> 2]) @@
    ("BNBUSDT" :> [quantity |-> 4, price |-> 2]) @@
    ("ADAUSDT" :> [quantity |-> 0, price |-> 4]) @@
    ("DOTUSDT" :> [quantity |-> 3, price |-> 3]) @@
    ("XRPUSDT" :> [quantity |-> 1, price |-> 4]) @@
    ("LTCUSDT" :> [quantity |-> 3, price |-> 2]) @@
    ("LINKUSDT" :> [quantity |-> 2, price |-> 3]) @@
    ("BCHUSDT" :> [quantity |-> 3, price |-> 2]) @@
    ("XLMUSDT" :> [quantity |-> 1, price |-> 5])

\* risk_config with the stop loss placed above the price.
InitRiskConfig_StopAbovePrice ==
    [max_position_size |-> Fin(10000, 0),
     max_daily_loss |-> Fin(1000, 0),
     stop_loss_percentage |-> Fin(-5, 0),
     take_profit_percentage |-> Fin(10, 0),
     max_open_orders |-> 10]

InitRiskConfig ==
    [max_position_size |-> Fin(10000, 0),
     max_daily_loss |-> Fin(1000, 0),
     stop_loss_percentage |-> Fin(5, 0),
     take_profit_percentage |-> Fin(10, 0),
     max_open_orders |-> 10]

\* min_quantities with a minimum for XRPUSDT below one step of its precision.
min_quantities_XrpFiner ==
    ("BTCUSDT" :> Fin(1, -6)) @@ ("ETHUSDT" :> Fin(1, -5)) @@
    ("BNBUSDT" :> Fin(1, -4)) @@ ("ADAUSDT" :> Fin(1, 0)) @@
    ("DOTUSDT" :> Fin(1, -3)) @@ ("XRPUSDT" :> Fin(5, -2)) @@
    ("LTCUSDT" :> Fin(1, -3)) @@ ("LINKUSDT" :> Fin(1, -2)) @@
    ("BCHUSDT" :> Fin(1, -3)) @@ ("XLMUSDT" :> Fin(1, -1))

\* The dict local to validate_order_quantity.
min_quantities ==
    ("BTCUSDT" :> Fin(1, -6)) @@ ("ETHUSDT" :> Fin(1, -5)) @@
    ("BNBUSDT" :> Fin(1, -4)) @@ ("ADAUSDT" :> Fin(1, 0)) @@
    ("DOTUSDT" :> Fin(1, -3)) @@ ("XRPUSDT" :> Fin(1, -1)) @@
    ("LTCUSDT" :> Fin(1, -3)) @@ ("LINKUSDT" :> Fin(1, -2)) @@
    ("BCHUSDT" :> Fin(1, -3)) @@ ("XLMUSDT" :> Fin(1, -1))

\* dict.get whose key is never found.
DictGet_Missing(d, key, default) == default

\* dict.get(key, default)
DictGet(d, key, default) == IF key \in DOMAIN d THEN d[key] ELSE default

(***************************************************************************)
(* The methods, each an outcome: Return(value) or the exception raised.     *)
(***************************************************************************)
\* validate_crypto_symbol without the allowlist lookup.
validate_crypto_symbol_Any(symbol) ==
    LET u == upper(symbol)
    IN IF u.raised THEN u ELSE Return(TRUE)

validate_crypto_symbol(symbol) ==
    LET u == upper(symbol)
    IN IF u.raised THEN u ELSE Return(InList(u.val, trading_pairs))

\* get_crypto_precision without the default: KeyError for a symbol without a rule.
get_crypto_precision_Strict(symbol) ==
    LET u == upper(symbol)
    IN IF u.raised THEN u
       ELSE IF u.val \in DOMAIN precision_config
       THEN Return(precision_config[u.val])
       ELSE Raise("KeyError", u.val)

get_crypto_precision(symbol) ==
    LET u == upper(symbol)
    IN IF u.raised THEN u
       ELSE Return(DictGet(precision_config, u.val, [quantity |-> 6, price |-> 2]))

validate_order_quantity(symbol, quantity) ==
    LET u == upper(symbol)
    IN IF u.raised THEN u
       ELSE LET known == validate_crypto_symbol(u.val)
            IN IF known.raised THEN known
               ELSE IF ~known.val
               THEN Return(<<FALSE, <<"UNSUPPORTED_PAIR: ", u.val>>>>)
               ELSE LET le == PyLessEq(quantity, Fin(0, 0))
                    IN IF le.raised THEN le
                       ELSE IF le.val
                       THEN Return(<<FALSE, <<"QUANTITY_MUST_BE_POSITIVE">>>>)
                       ELSE LET min_qty == DictGet(min_quantities, u.val, Fin(1, -6))
                                lt      == PyLess(quantity, min_qty)
                            IN IF lt.raised THEN lt
                               ELSE IF lt.val
                               THEN Return(<<FALSE, <<u.val, " MIN_QUANTITY_IS ",
                                                      StrOf(min_qty)>>>>)
                               ELSE Return(<<TRUE, <<>>>>)

\* The text an f-string renders for a symbol argument.
Text(symbol) == IF symbol = NoneSym THEN "None" ELSE symbol

format_crypto_position(symbol, quantity) ==
    IF symbol \in DOMAIN precision_config
    THEN LET q == QuantizeDown(quantity, precision_config[symbol].quantity)
         IN IF q.raised THEN q ELSE Return(<<Text(symbol), ": ", StrOf(q.val)>>)
    ELSE Return(<<Text(symbol), ": ", StrOf(quantity)>>)

format_crypto_price(symbol, price) ==
    LET p == get_crypto_precision(symbol)
    IN IF p.raised THEN p
       ELSE LET q == QuantizeDown(price, p.val.price)
            IN IF q.raised THEN q ELSE Return(FloatOfDecimal(q.val))

\* A float operand of * or /: TypeError for None.
Operand(v) ==
    IF v.k = "none" THEN Raise("TypeError", "unsupported operand type(s)")
    ELSE Return(ToBin(v))

calculate_position_size(symbol, available_cash, current_price, risk_percentage) ==
    Bind(Operand(risk_percentage), LAMBDA risk :
    Bind(Operand(available_cash), LAMBDA cash :
    Bind(Return(BinMul(cash, BinDiv(risk, ToBin(Fin(100, 0))).val)), LAMBDA risk_amount :
    Bind(Operand(current_price), LAMBDA px :
    Bind(BinDiv(risk_amount, px), LAMBDA position_size :
    Bind(get_crypto_precision(symbol), LAMBDA precision :
    Bind(QuantizeDownBin(position_size, precision.quantity), LAMBDA q :
    Return(FloatOfDecimal(q)))))))))

\* The dict local to get_min_quantity; it repeats the one of validate_order_quantity.
get_min_quantity(symbol) ==
    Bind(upper(symbol), LAMBDA u :
    Return(DictGet(min_quantities, u, Fin(1, -6))))

\* The dict local to get_price_tick_size.
tick_sizes ==
    ("BTCUSDT" :> Fin(1, -2)) @@ ("ETHUSDT" :> Fin(1, -2)) @@
    ("BNBUSDT" :> Fin(1, -2)) @@ ("ADAUSDT" :> Fin(1, -4)) @@
    ("DOTUSDT" :> Fin(1, -3)) @@ ("XRPUSDT" :> Fin(1, -4)) @@
    ("LTCUSDT" :> Fin(1, -2)) @@ ("LINKUSDT" :> Fin(1, -3)) @@
    ("BCHUSDT" :> Fin(1, -2)) @@ ("XLMUSDT" :> Fin(1, -5))

get_price_tick_size(symbol) ==
    Bind(upper(symbol), LAMBDA u :
    Return(DictGet(tick_sizes, u, Fin(1, -2))))

\* {} for a symbol outside trading_pairs.
get_crypto_market_info(symbol) ==
    Bind(upper(symbol), LAMBDA u :
    Bind(validate_crypto_symbol(u), LAMBDA known :
    IF ~known THEN Return(<<>>)
    ELSE
    Bind(get_crypto_precision(u), LAMBDA precision :
    Bind(get_min_quantity(u), LAMBDA min_quantity :
    Bind(get_price_tick_size(u), LAMBDA price_tick_size :
    Return([symbol |-> u,
            precision |-> precision,
            min_quantity |-> min_quantity,
            price_tick_size |-> price_tick_size,
            is_active |-> TRUE]))))))

\* datetime.now(): the clock counts ticks; strftime('%Y%m%d%H%M%S') keeps the
\* whole seconds, isoformat() keeps the tick.
TicksPerSecond == 2

NowSeconds == clock \div TicksPerSecond

\* risk_info with the notional value capped at risk_config's max_position_size.
risk_info_Capped(quantity, formatted_price, stop_loss_percentage, take_profit_percentage) ==
    [stop_loss |->
        BinMul(formatted_price,
               BinSub(ToBin(Fin(1, 0)),
                      BinDiv(stop_loss_percentage, ToBin(Fin(100, 0))).val)),
     take_profit |->
        BinMul(formatted_price,
               BinAdd(ToBin(Fin(1, 0)),
                      BinDiv(take_profit_percentage, ToBin(Fin(100, 0))).val)),
     position_size_usdt |->
        LET notional == BinMul(quantity, formatted_price)
            limit    == ToBin(risk_config.max_position_size)
        IN IF notional.cls = "num" /\ ~notional.neg
              /\ (notional.e > limit.e
                  \/ (notional.e = limit.e /\ BigCmp(notional.m, limit.m) > 0))
           THEN limit ELSE notional]

\* response["risk_info"] for the float operands quantity and formatted_price.
risk_info(quantity, formatted_price, stop_loss_percentage, take_profit_percentage) ==
    [stop_loss |->
        BinMul(formatted_price,
               BinSub(ToBin(Fin(1, 0)),
                      BinDiv(stop_loss_percentage, ToBin(Fin(100, 0))).val)),
     take_profit |->
        BinMul(formatted_price,
               BinAdd(ToBin(Fin(1, 0)),
                      BinDiv(take_profit_percentage, ToBin(Fin(100, 0))).val)),
     position_size_usdt |-> BinMul(quantity, formatted_price)]

\* The response with risk_info added whatever the action.
response_AnyAction(action, symbol, quantity, formatted_quantity, formatted_price, reason) ==
    [success |-> TRUE,
     trade_id |-> <<"crypto_", NowSeconds, "_", ToLower(symbol)>>,
     action |-> action,
     symbol |-> ToUpper(symbol),
     quantity |-> quantity,
     price |-> formatted_price,
     formatted_quantity |-> formatted_quantity,
     timestamp |-> clock,
     testnet |-> testnet_enabled,
     reason |-> reason]
    @@ "risk_info" :> risk_info(ToBin(quantity), ToBin(formatted_price),
                                ToBin(risk_config.stop_loss_percentage),
                                ToBin(risk_config.take_profit_percentage))

\* The dict built after both validations passed.
response(action, symbol, quantity, formatted_quantity, formatted_price, reason) ==
    [success |-> TRUE,
     trade_id |-> <<"crypto_", NowSeconds, "_", ToLower(symbol)>>,
     action |-> action,
     symbol |-> ToUpper(symbol),
     quantity |-> quantity,
     price |-> formatted_price,
     formatted_quantity |-> formatted_quantity,
     timestamp |-> clock,
     testnet |-> testnet_enabled,
     reason |-> reason]
    @@ IF action \in {"MAIRU", "MAICHU"}
       THEN "risk_info" :> risk_info(ToBin(quantity), ToBin(formatted_price),
                                     ToBin(risk_config.stop_loss_percentage),
                                     ToBin(risk_config.take_profit_percentage))
       ELSE <<>>

\* The try block.
process_crypto_action_try(action, symbol, quantity, price, reason) ==
        Bind(validate_crypto_symbol(symbol), LAMBDA known :
        IF ~known
        THEN Return([success |-> FALSE,
                     error |-> <<"UNSUPPORTED_PAIR: ", symbol>>,
                     action |-> action,
                     symbol |-> symbol])
        ELSE
        Bind(validate_order_quantity(symbol, quantity), LAMBDA valid :
        IF ~valid[1]
        THEN Return([success |-> FALSE,
                     error |-> valid[2],
                     action |-> action,
                     symbol |-> symbol,
                     quantity |-> quantity])
        ELSE
        Bind(format_crypto_position(symbol, quantity), LAMBDA formatted_quantity :
        Bind(format_crypto_price(symbol, price), LAMBDA formatted_price :
        Return(response(action, symbol, quantity, formatted_quantity,
                        formatted_price, reason))))))

\* process_crypto_action without its except clause.
process_crypto_action_Unguarded(action, symbol, quantity, price, reason) ==
    process_crypto_action_try(action, symbol, quantity, price, reason)

process_crypto_action(action, symbol, quantity, price, reason) ==
    Except(
        process_crypto_action_try(action, symbol, quantity, price, reason),
        LAMBDA e :
        Return([success |-> FALSE,
                error |-> e.msg,
                action |-> action,
                symbol |-> symbol,
                quantity |-> quantity,
                price |-> price]))

(***************************************************************************)
(* The state machine: a caller calls one method at a time; call records the *)
(* method and its arguments, ret its outcome, until the caller takes it.    *)
(* issued is the caller's record of the trade_ids it received.              *)
(***************************************************************************)
MaxClock == 2

QuantityInputs ==
    {Fin(-3, 0), Fin(0, 0), Fin(5, -7), Fin(1, -6), Fin(19, -7), Fin(5, -2),
     Fin(1, -1), Fin(5, -1), Fin(1, 0), Fin(17, -1), Fin(12345678, -8), Fin(1, 28),
     NaN, Inf, NegInf, PyNone}

PriceInputs ==
    {Fin(50000, 0), Fin(50000129, -3), Fin(123456, -6), Fin(3, -1), Fin(0, 0), Fin(-5129, -3),
     Fin(1, 27), NaN, Inf, PyNone}

\* The two action strings the code knows, and three it does not.
ActionInputs == {"MAIRU", "MAICHU", "BUY", "SELL", "HOLD"}

ReasonInputs == {<<>>}

CashInputs == {Fin(-100, 0), Fin(0, 0), Fin(30, 0), Fin(100, 0), Fin(10000, 0), NaN, PyNone}

SizingPriceInputs ==
    {Fin(-50000, 0), Fin(0, 0), Fin(1, 0), Fin(3, 0), Fin(50000129, -3), Fin(50000, 0), Inf}

\* risk_percentage; 2.0 is the default of the parameter.
RiskInputs == {Fin(2, 0), Fin(3, 0), Fin(1, 0)}

NoCall ==
    [op |-> "idle", symbol |-> NoneSym, quantity |-> PyNone, price |-> PyNone,
     action |-> "", cash |-> PyNone, risk |-> PyNone]

NoResult == Result("idle", Return("none"))

Idle == call.op = "idle"

Init ==
    /\ trading_pairs = InitTradingPairs
    /\ precision_config = InitPrecisionConfig
    /\ risk_config = InitRiskConfig
    /\ testnet_enabled = TRUE
    /\ clock = 0
    /\ call = NoCall
    /\ ret = NoResult
    /\ issued = <<>>
    /\ NoFiles
    /\ NoOrders

Fields == <<trading_pairs, precision_config, risk_config, testnet_enabled>>

ValidateCryptoSymbol ==
    /\ Idle
    /\ \E s \in SymbolInputs :
          /\ call' = [NoCall EXCEPT !.op = "validate_crypto_symbol", !.symbol = s]
          /\ ret' = Result("validate_crypto_symbol", validate_crypto_symbol(s))
    /\ UNCHANGED <<Fields, clock, issued, Disk, Exchange>>

GetCryptoPrecision ==
    /\ Idle
    /\ \E s \in SymbolInputs :
          /\ call' = [NoCall EXCEPT !.op = "get_crypto_precision", !.symbol = s]
          /\ ret' = Result("get_crypto_precision", get_crypto_precision(s))
    /\ UNCHANGED <<Fields, clock, issued, Disk, Exchange>>

GetMinQuantity ==
    /\ Idle
    /\ \E s \in SymbolInputs :
          /\ call' = [NoCall EXCEPT !.op = "get_min_quantity", !.symbol = s]
          /\ ret' = Result("get_min_quantity", get_min_quantity(s))
    /\ UNCHANGED <<Fields, clock, issued, Disk, Exchange>>

GetPriceTickSize ==
    /\ Idle
    /\ \E s \in SymbolInputs :
          /\ call' = [NoCall EXCEPT !.op = "get_price_tick_size", !.symbol = s]
          /\ ret' = Result("get_price_tick_size", get_price_tick_size(s))
    /\ UNCHANGED <<Fields, clock, issued, Disk, Exchange>>

GetCryptoMarketInfo ==
    /\ Idle
    /\ \E s \in SymbolInputs :
          /\ call' = [NoCall EXCEPT !.op = "get_crypto_market_info", !.symbol = s]
          /\ ret' = Result("get_crypto_market_info", get_crypto_market_info(s))
    /\ UNCHANGED <<Fields, clock, issued, Disk, Exchange>>

ValidateOrderQuantity ==
    /\ Idle
    /\ \E s \in SymbolInputs, q \in QuantityInputs :
          /\ call' = [NoCall EXCEPT !.op = "validate_order_quantity", !.symbol = s,
                                    !.quantity = q]
          /\ ret' = Result("validate_order_quantity", validate_order_quantity(s, q))
    /\ UNCHANGED <<Fields, clock, issued, Disk, Exchange>>

FormatCryptoPosition ==
    /\ Idle
    /\ \E s \in SymbolInputs, q \in QuantityInputs :
          /\ call' = [NoCall EXCEPT !.op = "format_crypto_position", !.symbol = s,
                                    !.quantity = q]
          /\ ret' = Result("format_crypto_position", format_crypto_position(s, q))
    /\ UNCHANGED <<Fields, clock, issued, Disk, Exchange>>

FormatCryptoPrice ==
    /\ Idle
    /\ \E s \in SymbolInputs, p \in PriceInputs :
          /\ call' = [NoCall EXCEPT !.op = "format_crypto_price", !.symbol = s,
                                    !.price = p]
          /\ ret' = Result("format_crypto_price", format_crypto_price(s, p))
    /\ UNCHANGED <<Fields, clock, issued, Disk, Exchange>>

CalculatePositionSize ==
    /\ Idle
    /\ \E s \in SymbolInputs, c \in CashInputs, p \in SizingPriceInputs, r \in RiskInputs :
          /\ call' = [NoCall EXCEPT !.op = "calculate_position_size", !.symbol = s,
                                    !.cash = c, !.price = p, !.risk = r]
          /\ ret' = Result("calculate_position_size", calculate_position_size(s, c, p, r))
    /\ UNCHANGED <<Fields, clock, issued, Disk, Exchange>>

\* process_crypto_action counting the order against risk_config's open orders.
ProcessCryptoAction_Counting ==
    /\ Idle
    /\ \E a \in ActionInputs, s \in SymbolInputs, q \in QuantityInputs,
          p \in PriceInputs, r \in ReasonInputs :
          /\ call' = [NoCall EXCEPT !.op = "process_crypto_action", !.action = a,
                                    !.symbol = s, !.quantity = q, !.price = p]
          /\ ret' = Result("process_crypto_action", process_crypto_action(a, s, q, p, r))
    /\ risk_config' = [risk_config EXCEPT !.max_open_orders = 9]
    /\ UNCHANGED <<trading_pairs, precision_config, testnet_enabled, clock, issued, Disk, Exchange>>

ProcessCryptoAction ==
    /\ Idle
    /\ \E a \in ActionInputs, s \in SymbolInputs, q \in QuantityInputs,
          p \in PriceInputs, r \in ReasonInputs :
          /\ call' = [NoCall EXCEPT !.op = "process_crypto_action", !.action = a,
                                    !.symbol = s, !.quantity = q, !.price = p]
          /\ ret' = Result("process_crypto_action", process_crypto_action(a, s, q, p, r))
    /\ UNCHANGED <<Fields, clock, issued, Disk, Exchange>>

\* The caller takes the outcome; the agent is ready for the next call.
TakeResult ==
    /\ ~Idle
    /\ call' = NoCall
    /\ ret' = NoResult
    /\ UNCHANGED <<Fields, clock, issued, Disk, Exchange>>

\* Time passes between calls.
Tick ==
    /\ Idle
    /\ clock < MaxClock
    /\ clock' = clock + 1
    /\ UNCHANGED <<Fields, call, ret, issued, Disk, Exchange>>

Next ==
    \/ ValidateCryptoSymbol
    \/ GetCryptoPrecision
    \/ GetMinQuantity
    \/ GetPriceTickSize
    \/ GetCryptoMarketInfo
    \/ ValidateOrderQuantity
    \/ FormatCryptoPosition
    \/ FormatCryptoPrice
    \/ CalculatePositionSize
    \/ ProcessCryptoAction
    \/ TakeResult
    \/ Tick

Spec == Init /\ [][Next]_vars

(***************************************************************************)
(* A trading session: the caller places orders through                      *)
(* process_crypto_action as time passes, and keeps the trade_id of every    *)
(* accepted one.                                                            *)
(***************************************************************************)
MaxOrders == 3

OrderSymbols == {"BTCUSDT", "btcusdt", "ADAUSDT"}

OrderActions == {"MAIRU", "HOLD"}

OrderQuantities == {Fin(1, 0), Fin(-3, 0)}

OrderPrices == {Fin(50000, 0)}

PlaceOrder ==
    /\ Idle
    /\ Len(issued) < MaxOrders
    /\ \E a \in OrderActions, s \in OrderSymbols, q \in OrderQuantities,
          p \in OrderPrices, r \in ReasonInputs :
          LET result == process_crypto_action(a, s, q, p, r)
          IN /\ call' = [NoCall EXCEPT !.op = "process_crypto_action", !.action = a,
                                       !.symbol = s, !.quantity = q, !.price = p]
             /\ ret' = Result("process_crypto_action", result)
             /\ issued' = IF result.val.success
                          THEN Append(issued, result.val.trade_id)
                          ELSE issued
    /\ UNCHANGED <<Fields, clock, Disk, Exchange>>

TradingNext ==
    \/ PlaceOrder
    \/ TakeResult
    \/ Tick

TradingSpec == Init /\ [][TradingNext]_vars

(***************************************************************************)
(* Agents whose owner has set the three limits of risk_config, a plain dict *)
(* attribute, to other values: process_crypto_action under each of them.    *)
(***************************************************************************)
RiskLimits ==
    {<<Fin(10000, 0), Fin(1000, 0), 10>>,
     <<Fin(1, 0), Fin(1000, 0), 10>>,
     <<Fin(10000, 0), Fin(0, 0), 10>>,
     <<Fin(10000, 0), Fin(1000, 0), 0>>}

LimitsInit ==
    /\ trading_pairs = InitTradingPairs
    /\ precision_config = InitPrecisionConfig
    /\ \E l \in RiskLimits :
          risk_config = [InitRiskConfig EXCEPT !.max_position_size = l[1],
                                              !.max_daily_loss = l[2],
                                              !.max_open_orders = l[3]]
    /\ testnet_enabled = TRUE
    /\ clock = 0
    /\ call = NoCall
    /\ ret = NoResult
    /\ issued = <<>>
    /\ NoFiles
    /\ NoOrders

LimitsNext ==
    \/ ProcessCryptoAction
    \/ TakeResult

LimitsSpec == LimitsInit /\ [][LimitsNext]_vars

(***************************************************************************)
(* Properties.  A number is compared as the value it denotes; not-a-number  *)
(* and None compare with nothing.                                           *)
(***************************************************************************)
IsNumber(v) == v.k \in {"fin", "inf", "ninf"}

NumCmp(a, b) ==
    CASE a.k = "fin" /\ b.k = "fin" -> CmpFin(a, b)
      [] a.k = b.k -> 0
      [] a.k = "ninf" \/ b.k = "inf" -> -1
      [] OTHER -> 1

NumLe(a, b) == IsNumber(a) /\ IsNumber(b) /\ NumCmp(a, b) <= 0

NumLt(a, b) == IsNumber(a) /\ IsNumber(b) /\ NumCmp(a, b) < 0

Zero == Fin(0, 0)

IsFinite(v) == v.k = "fin"

IsString(symbol) == symbol # NoneSym

\* The symbol, in any casing, is in the trading-pair allowlist.
Known(symbol) == IsString(symbol) /\ InList(ToUpper(symbol), trading_pairs)

Called(op) == call.op = op

\* The outcome of the call in progress.
Outcome == [raised |-> ret.raised, val |-> ret.val]

NonPositiveRejection == <<"QUANTITY_MUST_BE_POSITIVE">>

\* The exception, if any, raised by the steps process_crypto_action executes for
\* these arguments.
InternalFault(symbol, quantity, price) ==
    LET known == validate_crypto_symbol(symbol)
        valid == validate_order_quantity(symbol, quantity)
        fq    == format_crypto_position(symbol, quantity)
        fp    == format_crypto_price(symbol, price)
    IN IF known.raised THEN known
       ELSE IF ~known.val THEN NoResult
       ELSE IF valid.raised THEN valid
       ELSE IF ~valid.val[1] THEN NoResult
       ELSE IF fq.raised THEN fq
       ELSE IF fp.raised THEN fp
       ELSE NoResult

\* C1: process_crypto_action returns a result for every input, None and
\* non-finite arguments included; when a step it executes raises, the result is
\* a failure whose error is the message of that exception.
C1_NoFaultEscapes ==
    Called("process_crypto_action") =>
        /\ ~ret.raised
        /\ ret.val.success \in BOOLEAN
        /\ LET fault == InternalFault(call.symbol, call.quantity, call.price)
           IN fault.raised =>
                /\ ret.val.success = FALSE
                /\ ret.val.error = fault.val.msg

\* A None symbol makes upper() raise; the caller gets a failure with that message.
C1_FaultConverted ==
    /\ Called("process_crypto_action")
    /\ call.symbol = NoneSym
    /\ ~ret.raised
    /\ ret.val.success = FALSE
    /\ ret.val.error = "'NoneType' object has no attribute 'upper'"

\* C2: every result of process_crypto_action with success = True is for a
\* symbol of the allowlist and a quantity that is > 0 and >= the minimum
\* quantity of the symbol.
C2_SuccessOnlyForValidRequests ==
    (Called("process_crypto_action") /\ ~ret.raised /\ ret.val.success) =>
        /\ Known(call.symbol)
        /\ NumLt(Zero, call.quantity)
        /\ NumLe(DictGet(min_quantities, ToUpper(call.symbol), Fin(1, -6)), call.quantity)

\* A quantity that is not a number is accepted.
C2_NaNQuantityAccepted ==
    /\ Called("process_crypto_action")
    /\ call.symbol = "BTCUSDT"
    /\ call.quantity = NaN
    /\ ~ret.raised
    /\ ret.val.success

\* C3: for every symbol with a rule and every quantity >= the minimum quantity
\* of the symbol, validate_order_quantity returns valid with no error.
C3_AtLeastMinimumAccepted ==
    (/\ Called("validate_order_quantity")
     /\ Known(call.symbol)
     /\ NumLe(min_quantities[ToUpper(call.symbol)], call.quantity))
    => Outcome = Return(<<TRUE, <<>>>>)

\* A quantity equal to the minimum is accepted.
C3_MinimumAccepted ==
    /\ Called("validate_order_quantity")
    /\ call.symbol = "ADAUSDT"
    /\ call.quantity = Fin(1, 0)
    /\ Outcome = Return(<<TRUE, <<>>>>)

\* C4 as stated: for every quantity <= 0 and every symbol, validate_order_quantity
\* fails with the non-positive rejection, and process_crypto_action returns that
\* rejection for every price.
C4_NonPositiveRejectedForEverySymbol ==
    /\ (Called("validate_order_quantity") /\ IsString(call.symbol)
            /\ NumLe(call.quantity, Zero))
        => Outcome = Return(<<FALSE, NonPositiveRejection>>)
    /\ (Called("process_crypto_action") /\ IsString(call.symbol)
            /\ NumLe(call.quantity, Zero))
        => /\ ~ret.raised
           /\ ret.val.success = FALSE
           /\ ret.val.error = NonPositiveRejection

\* C4, amended: for every quantity <= 0 and every symbol of the allowlist (in any
\* casing), validate_order_quantity fails with the non-positive rejection, and
\* process_crypto_action returns that rejection for every price.
C4_NonPositiveRejectedForKnownSymbols ==
    /\ (Called("validate_order_quantity") /\ Known(call.symbol)
            /\ NumLe(call.quantity, Zero))
        => Outcome = Return(<<FALSE, NonPositiveRejection>>)
    /\ (Called("process_crypto_action") /\ Known(call.symbol)
            /\ NumLe(call.quantity, Zero))
        => /\ ~ret.raised
           /\ ret.val.success = FALSE
           /\ ret.val.error = NonPositiveRejection
           /\ DOMAIN ret.val = {"success", "error", "action", "symbol", "quantity"}

\* Quantity -3 is rejected as non-positive even when the price is None.
C4_NegativeQuantityRejected ==
    /\ Called("process_crypto_action")
    /\ call.symbol = "BTCUSDT"
    /\ call.quantity = Fin(-3, 0)
    /\ call.price = PyNone
    /\ ~ret.raised
    /\ ret.val.error = NonPositiveRejection

\* C5: for every known symbol and every quantity strictly between 0 and the
\* minimum quantity of the symbol, validate_order_quantity fails with the
\* below-minimum rejection, whose message holds the minimum; a quantity equal to
\* the minimum is accepted.
C5_BelowMinimumRejected ==
    (Called("validate_order_quantity") /\ Known(call.symbol)) =>
        LET u == ToUpper(call.symbol)
            m == min_quantities[u]
        IN /\ (NumLt(Zero, call.quantity) /\ NumLt(call.quantity, m))
                => Outcome = Return(<<FALSE, <<u, " MIN_QUANTITY_IS ", StrOf(m)>>>>)
           /\ call.quantity = m => Outcome = Return(<<TRUE, <<>>>>)

\* ADAUSDT with quantity 0.5 is rejected citing 1.0.
C5_HalfAdaRejected ==
    /\ Called("validate_order_quantity")
    /\ call.symbol = "ADAUSDT"
    /\ call.quantity = Fin(5, -1)
    /\ Outcome = Return(<<FALSE, <<"ADAUSDT", " MIN_QUANTITY_IS ", StrOf(Fin(1, 0))>>>>)

\* C6: for every symbol that is not in the allowlist, process_crypto_action
\* fails with the unknown-symbol rejection for every quantity and price, and the
\* result has none of the fields of an order.
C6_UnknownSymbolRejected ==
    (Called("process_crypto_action") /\ IsString(call.symbol) /\ ~Known(call.symbol)) =>
        /\ Outcome = Return([success |-> FALSE,
                         error |-> <<"UNSUPPORTED_PAIR: ", call.symbol>>,
                         action |-> call.action,
                         symbol |-> call.symbol])
        /\ DOMAIN ret.val \cap {"trade_id", "price", "formatted_quantity",
                                "risk_info", "timestamp"} = {}

\* DOGEUSDT is rejected although its quantity and price are not numbers at all.
C6_DogeRejected ==
    /\ Called("process_crypto_action")
    /\ call.symbol = "DOGEUSDT"
    /\ call.quantity = PyNone
    /\ call.price = PyNone
    /\ ~ret.raised
    /\ ret.val.error = <<"UNSUPPORTED_PAIR: ", "DOGEUSDT">>

\* A finite value v >= 0 whose form with d fractional digits has no more digits
\* than a Decimal holds.
Quantizable(v, d) ==
    /\ IsFinite(v)
    /\ v.c >= 0
    /\ NumDigits(v.c) + v.x + d <= DecimalPrec

\* The finite float r is the largest multiple of 10^-d that is <= v.
IsTruncation(v, d, r) ==
    /\ IsFinite(r)
    /\ r.c = 0 \/ r.x >= -d
    /\ NumLe(r, v)
    /\ NumLt(v, Fin(r.c * Pow10(r.x + d) + 1, -d))

\* Order of two finite binary64 values: -1, 0 or 1.
BinCmp(a, b) ==
    CASE a.cls = "zero" /\ b.cls = "zero" -> 0
      [] a.cls = "zero" -> IF b.neg THEN 1 ELSE -1
      [] b.cls = "zero" -> IF a.neg THEN -1 ELSE 1
      [] a.neg # b.neg -> IF a.neg THEN -1 ELSE 1
      [] OTHER ->
            LET mag == IF a.e # b.e THEN (IF a.e < b.e THEN -1 ELSE 1)
                       ELSE BigCmp(a.m, b.m)
            IN IF a.neg THEN -mag ELSE mag

\* The float that calculate_position_size quantizes.
RawPositionSize(available_cash, current_price, risk_percentage) ==
    BinDiv(BinMul(ToBin(available_cash),
                  BinDiv(ToBin(risk_percentage), ToBin(Fin(100, 0))).val),
           ToBin(current_price)).val

\* The float r is the repr of w truncated to d digits: r is a multiple of 10^-d,
\* r <= repr(w) < r + 10^-d.  A decimal is <= repr(w) exactly when the float
\* nearest to it is <= w.
IsTruncationOfFloat(w, d, r) ==
    /\ IsFinite(r)
    /\ r.c = 0 \/ r.x >= -d
    /\ BinCmp(ToBin(r), w) <= 0
    /\ BinCmp(w, ToBin(Fin(r.c * Pow10(r.x + d) + 1, -d))) < 0

\* Sizing arguments the claims C7 to C9 speak of: a symbol, cash >= 0, price > 0.
SizingInputsValid ==
    /\ IsString(call.symbol)
    /\ IsFinite(call.cash) /\ call.cash.c >= 0
    /\ IsFinite(call.price) /\ call.price.c > 0

\* C7: the quantization of format_crypto_price, format_crypto_position and
\* calculate_position_size truncates toward zero: for every finite v >= 0 (within
\* the 28 digits of a Decimal) and digit count d the result is the largest
\* multiple of 10^-d that is <= v, so it never exceeds v; d = 0 gives the integer
\* part.  A float is the decimal its repr shows.
C7_QuantizationTruncates ==
    /\ (/\ Called("format_crypto_price")
        /\ IsString(call.symbol)
        /\ Quantizable(call.price, get_crypto_precision(call.symbol).val.price))
        => /\ ~ret.raised
           /\ IsTruncation(call.price, get_crypto_precision(call.symbol).val.price,
                           ret.val)
    /\ (/\ Called("format_crypto_position")
        /\ call.symbol \in DOMAIN precision_config
        /\ Quantizable(call.quantity, precision_config[call.symbol].quantity))
        => /\ ~ret.raised
           /\ ret.val[3].str.x = -precision_config[call.symbol].quantity
           /\ IsTruncation(call.quantity, precision_config[call.symbol].quantity,
                           FloatOfDecimal(ret.val[3].str))
    /\ (Called("calculate_position_size") /\ SizingInputsValid)
        => /\ ~ret.raised
           /\ IsTruncationOfFloat(
                  RawPositionSize(call.cash, call.price, call.risk),
                  get_crypto_precision(call.symbol).val.quantity,
                  ret.val)

\* 50000.129 at two digits is 50000.12.
C7_DigitsDropped ==
    /\ Called("format_crypto_price")
    /\ call.symbol = "BTCUSDT"
    /\ call.price = Fin(50000129, -3)
    /\ Outcome = Return(Fin(5000012, -2))

\* C8: quantization is idempotent: a quantized value v >= 0, quantized again with
\* the same digit count, is unchanged; so is the size calculate_position_size
\* returns, quantized to the quantity precision of its symbol.
C8_QuantizationIdempotent ==
    /\ (Called("format_crypto_price") /\ NumLe(Zero, call.price) /\ ~ret.raised)
        => format_crypto_price(call.symbol, ret.val) = Outcome
    /\ (/\ Called("format_crypto_position")
        /\ call.symbol \in DOMAIN precision_config
        /\ NumLe(Zero, call.quantity)
        /\ ~ret.raised)
        => format_crypto_position(call.symbol, FloatOfDecimal(ret.val[3].str)) = Outcome
    /\ (Called("calculate_position_size") /\ SizingInputsValid /\ ~ret.raised)
        => LET again == QuantizeDown(ret.val,
                                     get_crypto_precision(call.symbol).val.quantity)
           IN /\ ~again.raised
              /\ FloatOfDecimal(again.val) = ret.val

\* One percent of 100 at price 3 is 0.333333 at six digits, and stays so.
C8_SizeUnchanged ==
    /\ Called("calculate_position_size")
    /\ call.symbol = "BTCUSDT"
    /\ call.cash = Fin(100, 0)
    /\ call.price = Fin(3, 0)
    /\ call.risk = Fin(1, 0)
    /\ Outcome = Return(Fin(333333, -6))
    /\ QuantizeDown(ret.val, 6) = Return([k |-> "fin", c |-> 333333, x |-> -6])

\* (cash * risk / 100) / price in exact arithmetic, truncated to d digits.
ExactPositionSize(cash, price, risk, d) ==
    IF cash.c = 0 THEN Zero
    ELSE LET shift == cash.x + risk.x - 2 - price.x + d
             num   == BigMulPow10(BigOfInt(cash.c * risk.c), shift)
             den   == BigMulPow10(BigOfInt(price.c), -shift)
         IN Fin(BigToInt(BigDivMod(num, den)[1]), -d)

\* C9: for available_cash >= 0 and current_price > 0, calculate_position_size
\* returns (available_cash * risk_percentage / 100) / current_price truncated
\* toward zero to the quantity precision of the symbol.
C9_PositionSizeIsTruncatedQuotient ==
    (Called("calculate_position_size") /\ SizingInputsValid) =>
        Outcome = Return(ExactPositionSize(call.cash, call.price, call.risk,
                             get_crypto_precision(call.symbol).val.quantity))

\* Cash 30 at price 3 with 2 percent at risk is 0.2; the size returned is 0.199999.
C9_SizeBelowQuotient ==
    /\ Called("calculate_position_size")
    /\ call.symbol = "BTCUSDT"
    /\ call.cash = Fin(30, 0)
    /\ call.price = Fin(3, 0)
    /\ call.risk = Fin(2, 0)
    /\ Outcome = Return(Fin(199999, -6))

\* C10: calculate_position_size with current_price <= 0 or available_cash < 0
\* fails with an error and returns no size.
C10_InvalidSizingInputsFail ==
    (/\ Called("calculate_position_size")
     /\ NumLe(call.price, Zero) \/ NumLt(call.cash, Zero))
    => ret.raised

\* Negative cash gives a negative size.
C10_NegativeSizeReturned ==
    /\ Called("calculate_position_size")
    /\ call.symbol = "BTCUSDT"
    /\ call.cash = Fin(-100, 0)
    /\ call.price = Fin(50000, 0)
    /\ call.risk = Fin(2, 0)
    /\ Outcome = Return(Fin(-4, -5))

\* An accepted result of process_crypto_action.
Accepted == Called("process_crypto_action") /\ ~ret.raised /\ ret.val.success

\* The action is one of the two strings the code treats as a directional trade.
Directional == call.action \in {"MAIRU", "MAICHU"}

\* P * (1 + sign * percentage / 100) in exact arithmetic, truncated to d digits,
\* as the float of that decimal.  The percentages of risk_config are whole numbers.
ExactLevel(P, percentage, sign, d) ==
    ToBin(FloatOfDecimal(
        QuantizeDown(Fin(P.c * (100 + sign * percentage.c * Pow10(percentage.x)), P.x - 2),
                     d).val))

\* C11: in every accepted directional result with quantized price P, stop_loss is
\* P * (1 - stop_loss_percentage / 100) and take_profit is
\* P * (1 + take_profit_percentage / 100), each truncated to the price precision
\* of the symbol.
C11_LevelsTruncatedToPricePrecision ==
    (Accepted /\ Directional /\ IsFinite(ret.val.price)) =>
        LET d == get_crypto_precision(call.symbol).val.price
        IN /\ ret.val.risk_info.stop_loss
                = ExactLevel(ret.val.price, risk_config.stop_loss_percentage, -1, d)
           /\ ret.val.risk_info.take_profit
                = ExactLevel(ret.val.price, risk_config.take_profit_percentage, 1, d)

\* BTCUSDT at price 50000 gets a take_profit above 55000.00: the float product
\* 50000.0 * 1.1 is 55000.00000000001 and is not quantized.
C11_TakeProfitAboveTwoDigits ==
    /\ Accepted
    /\ call.action = "MAIRU"
    /\ call.symbol = "BTCUSDT"
    /\ call.price = Fin(50000, 0)
    /\ ret.val.risk_info.stop_loss = ToBin(Fin(47500, 0))
    /\ BinCmp(ToBin(Fin(55000, 0)), ret.val.risk_info.take_profit) < 0
    /\ BinCmp(ret.val.risk_info.take_profit, ToBin(Fin(5500001, -2))) < 0

Truncated(v, d) == FloatOfDecimal(QuantizeDown(v, d).val)

\* C13: in every accepted result the quantity and the price are the request's
\* values truncated to the quantity and price precision of the symbol, and
\* position_size_usdt is the product of that quantity and that price (for a
\* quantity whose truncation a Decimal holds).
C13_OutputsAreQuantized ==
    (/\ Accepted
     /\ IsFinite(call.quantity) /\ IsFinite(call.price)
     /\ ~QuantizeDown(call.quantity,
                      get_crypto_precision(call.symbol).val.quantity).raised) =>
        LET precision == get_crypto_precision(call.symbol).val
            quantity  == Truncated(call.quantity, precision.quantity)
            price     == Truncated(call.price, precision.price)
        IN /\ ret.val.quantity = quantity
           /\ ret.val.price = price
           /\ Directional =>
                 ret.val.risk_info.position_size_usdt = BinMul(ToBin(quantity), ToBin(price))

\* ADAUSDT (no fractional digits) with quantity 1.7: the result shows 1 in
\* formatted_quantity but 1.7 in quantity, and the notional value is 1.7 * 0.1234.
C13_RawQuantityReturned ==
    /\ Accepted
    /\ call.action = "MAIRU"
    /\ call.symbol = "ADAUSDT"
    /\ call.quantity = Fin(17, -1)
    /\ call.price = Fin(123456, -6)
    /\ ret.val.formatted_quantity = <<"ADAUSDT", ": ", StrOf([k |-> "fin", c |-> 1, x |-> 0])>>
    /\ ret.val.quantity = Fin(17, -1)
    /\ ret.val.price = Fin(1234, -4)
    /\ ret.val.risk_info.position_size_usdt = ToBin(Fin(20978, -5))

\* C14: across any sequence of accepted process_crypto_action calls, no two calls
\* receive the same trade_id, however close in time and whatever their symbols.
C14_TradeIdsDistinct ==
    \A i, j \in 1..Len(issued) : i # j => issued[i] # issued[j]

\* Two orders for one symbol, accepted within the same second, share a trade_id.
C14_SameSecondSameId ==
    /\ Len(issued) = 2
    /\ issued[1] = <<"crypto_", 0, "_", "btcusdt">>
    /\ issued[2] = issued[1]
    /\ clock = 1

\* C15: for every symbol and every casing of it, process_crypto_action decides as
\* for the upper-case form, and an accepted result shows the same quantized
\* quantity (the number in formatted_quantity) and the same quantized price.
C15_CasingIrrelevant ==
    (Called("process_crypto_action") /\ IsString(call.symbol)) =>
        LET canonical == process_crypto_action(call.action, ToUpper(call.symbol),
                                               call.quantity, call.price, <<>>)
        IN /\ ~ret.raised
           /\ ret.val.success = canonical.val.success
           /\ ret.val.success =>
                 /\ ret.val.formatted_quantity[3] = canonical.val.formatted_quantity[3]
                 /\ ret.val.price = canonical.val.price

\* "btcusdt" with quantity 0.12345678 is accepted with the quantity as given,
\* where "BTCUSDT" shows 0.123456.
C15_LowerCaseNotQuantized ==
    /\ Accepted
    /\ call.symbol = "btcusdt"
    /\ call.quantity = Fin(12345678, -8)
    /\ ret.val.symbol = "BTCUSDT"
    /\ ret.val.formatted_quantity = <<"btcusdt", ": ", StrOf(Fin(12345678, -8))>>
    /\ format_crypto_position("BTCUSDT", call.quantity)
          = Return(<<"BTCUSDT", ": ", StrOf([k |-> "fin", c |-> 123456, x |-> -6])>>)

RuleLookups ==
    {"get_crypto_precision", "get_min_quantity", "get_price_tick_size",
     "get_crypto_market_info"}

\* C17: for every symbol outside the allowlist, each rule lookup reports
\* not-found (an empty result or an error) and returns no precision, minimum
\* quantity or tick size.
C17_UnknownSymbolHasNoRule ==
    (call.op \in RuleLookups /\ IsString(call.symbol) /\ ~Known(call.symbol)) =>
        (ret.raised \/ DOMAIN ret.val = {})

\* DOGEUSDT, which is not in the allowlist, is given the default precisions.
C17_DogeGetsDefaultPrecision ==
    /\ Called("get_crypto_precision")
    /\ call.symbol = "DOGEUSDT"
    /\ ~InList("DOGEUSDT", trading_pairs)
    /\ ~ret.raised
    /\ ret.val = [quantity |-> 6, price |-> 2]

\* An outcome of validate_order_quantity that is a rejection.
Rejected(validation) == ~validation.raised /\ ~validation.val[1]

\* C18: when validate_order_quantity rejects a request, process_crypto_action
\* returns a failure whose error is exactly the message of validate_order_quantity
\* for that request, for each rejection kind and every casing of the symbol.
C18_RejectionMessagePropagated ==
    (/\ Called("process_crypto_action")
     /\ IsString(call.symbol)
     /\ Rejected(validate_order_quantity(call.symbol, call.quantity))) =>
        /\ ~ret.raised
        /\ ret.val.success = FALSE
        /\ ret.val.error = validate_order_quantity(call.symbol, call.quantity).val[2]

\* For "dogeusdt" process_crypto_action names the symbol as given, while
\* validate_order_quantity names it in upper case.
C18_UnknownSymbolNamedAsGiven ==
    /\ Called("process_crypto_action")
    /\ call.symbol = "dogeusdt"
    /\ call.quantity = Fin(1, 0)
    /\ ~ret.raised
    /\ ret.val.error = <<"UNSUPPORTED_PAIR: ", "dogeusdt">>
    /\ validate_order_quantity(call.symbol, call.quantity)
          = Return(<<FALSE, <<"UNSUPPORTED_PAIR: ", "DOGEUSDT">>>>)

\* C19: every rejection returned by process_crypto_action echoes the symbol and
\* the quantity of the request, and a below-minimum rejection names the minimum.
C19_RejectionEchoesRequest ==
    (Called("process_crypto_action") /\ ~ret.raised /\ ~ret.val.success) =>
        /\ {"symbol", "quantity"} \subseteq DOMAIN ret.val
        /\ ret.val.symbol = call.symbol
        /\ ret.val.quantity = call.quantity
        /\ (/\ Known(call.symbol)
            /\ NumLt(Zero, call.quantity)
            /\ NumLt(call.quantity, min_quantities[ToUpper(call.symbol)]))
            => ret.val.error[3] = StrOf(min_quantities[ToUpper(call.symbol)])

\* The rejection of DOGEUSDT with quantity 1.0 has no quantity field.
C19_UnknownSymbolWithoutQuantity ==
    /\ Called("process_crypto_action")
    /\ call.symbol = "DOGEUSDT"
    /\ call.quantity = Fin(1, 0)
    /\ ~ret.raised
    /\ ~ret.val.success
    /\ DOMAIN ret.val = {"success", "error", "action", "symbol"}

C21_LimitsNotEnforced ==
    Called("process_crypto_action") =>
        LET valid == validate_order_quantity(call.symbol, call.quantity)
            fq    == format_crypto_position(call.symbol, call.quantity)
            fp    == format_crypto_price(call.symbol, call.price)
        IN /\ ~ret.raised
           /\ ret.val.success <=>
                 (~valid.raised /\ valid.val[1] /\ ~fq.raised /\ ~fp.raised)
           /\ ret.val.success =>
                 /\ ret.val.quantity = call.quantity
                 /\ ret.val.price = fp.val
                 /\ Directional =>
                       ret.val.risk_info.position_size_usdt
                          = BinMul(ToBin(call.quantity), ToBin(fp.val))

\* With max_position_size set to 1, one BTCUSDT at 50000 is accepted with a
\* notional value of 50000.
C21_OrderAboveMaxPositionSize ==
    /\ Accepted
    /\ risk_config.max_position_size = Fin(1, 0)
    /\ call.action = "MAIRU"
    /\ call.symbol = "BTCUSDT"
    /\ call.quantity = Fin(1, 0)
    /\ call.price = Fin(50000, 0)
    /\ ret.val.risk_info.position_size_usdt = ToBin(Fin(50000, 0))

\* C22: calculate_position_size validates neither the symbol nor the size: for
\* every symbol, with cash >= 0 and price > 0, it returns a size, truncated to six
\* digits when the symbol has no rule; nothing keeps the size from being one that
\* validate_order_quantity rejects.
C22_SizingDoesNotValidate ==
    (Called("calculate_position_size") /\ SizingInputsValid) =>
        /\ ~ret.raised
        /\ IsFinite(ret.val)
        /\ ~Known(call.symbol) =>
              IsTruncationOfFloat(RawPositionSize(call.cash, call.price, call.risk),
                                  6, ret.val)

\* Two percent of 100 at price 3 is 0.666666 for DOGEUSDT, which is not in the
\* allowlist: a size that validate_order_quantity rejects.
C22_SizeForUnknownSymbol ==
    /\ Called("calculate_position_size")
    /\ call.symbol = "DOGEUSDT"
    /\ call.cash = Fin(100, 0)
    /\ call.price = Fin(3, 0)
    /\ call.risk = Fin(2, 0)
    /\ Outcome = Return(Fin(666666, -6))
    /\ Rejected(validate_order_quantity(call.symbol, ret.val))

C30_LevelsBracketPrice ==
    (Accepted /\ Directional /\ IsFinite(ret.val.price) /\ NumLe(Zero, ret.val.price)) =>
        LET price     == ToBin(ret.val.price)
            stop_loss == ret.val.risk_info.stop_loss
            take_profit == ret.val.risk_info.take_profit
        IN /\ BinCmp(stop_loss, price) <= 0
           /\ BinCmp(price, take_profit) <= 0
           /\ NumLt(Zero, ret.val.price) =>
                 /\ BinCmp(stop_loss, price) < 0
                 /\ BinCmp(price, take_profit) < 0

\* A sale at 0.3 of a symbol with four price digits: both levels differ from 0.3.
C30_LevelsAroundThreeTenths ==
    /\ Accepted
    /\ call.action = "MAICHU"
    /\ call.symbol = "ADAUSDT"
    /\ call.price = Fin(3, -1)
    /\ ret.val.price = Fin(3, -1)
    /\ BinCmp(ret.val.risk_info.stop_loss, ToBin(Fin(3, -1))) < 0
    /\ BinCmp(ToBin(Fin(3, -1)), ret.val.risk_info.take_profit) < 0

\* A purchase at price 0: both levels are 0.
C30_LevelsAtZeroPrice ==
    /\ Accepted
    /\ Directional
    /\ ret.val.price = Zero
    /\ BinCmp(ret.val.risk_info.stop_loss, ToBin(Zero)) = 0
    /\ BinCmp(ret.val.risk_info.take_profit, ToBin(Zero)) = 0

(***************************************************************************)
(* The configuration manager (configs/config_manager.py), the switcher      *)
(* (scripts/config_switcher.py) and the activation route of the API          *)
(* (configs/config_api.py).  config_files[market] is the market's config    *)
(* file, multi_mode_config is multi_mode_config.json, active_config is      *)
(* active_config.json and local_quickstart is local_quickstart.json.        *)
(***************************************************************************)
\* A float, named by its repr.
Float(r) == [float |-> r]

\* The "models" entry shared by the three default configs.
DefaultModels ==
    List(<<Dict(("name" :> Str("claude-3.7-sonnet")) @@
                ("basemodel" :> Str("anthropic/claude-3.7-sonnet")) @@
                ("signature" :> Str("claude-3.7-sonnet")) @@
                ("enabled" :> Bool(TRUE)))>>)

us_config ==
    Dict(("name" :> Str("US_MARKET_CONFIG")) @@
         ("description" :> Str("NASDAQ100_TRADING_CONFIG")) @@
         ("market" :> Str("us")) @@
         ("agent_type" :> Str("BaseAgent")) @@
         ("date_range" :> Dict(("init_date" :> Str("2025-10-01")) @@
                               ("end_date" :> Str("2025-10-21")))) @@
         ("models" :> DefaultModels) @@
         ("agent_config" :> Dict(("max_steps" :> Num(30)) @@ ("max_retries" :> Num(3)) @@
                                 ("base_delay" :> Float("1.0")) @@
                                 ("initial_cash" :> Float("10000.0")))) @@
         ("data_source" :> Str("alphavantage")) @@
         ("api_key_required" :> List(<<Str("alphavantage"), Str("openai")>>)) @@
         ("enabled" :> Bool(TRUE)))

cn_config ==
    Dict(("name" :> Str("CN_MARKET_CONFIG")) @@
         ("description" :> Str("SSE50_TRADING_CONFIG")) @@
         ("market" :> Str("cn")) @@
         ("agent_type" :> Str("BaseAgentAStock")) @@
         ("date_range" :> Dict(("init_date" :> Str("2025-10-01")) @@
                               ("end_date" :> Str("2025-11-03")))) @@
         ("models" :> DefaultModels) @@
         ("agent_config" :> Dict(("max_steps" :> Num(2)) @@ ("max_retries" :> Num(3)) @@
                                 ("base_delay" :> Float("1.0")) @@
                                 ("initial_cash" :> Float("10000.0")))) @@
         ("data_source" :> Str("tushare")) @@
         ("api_key_required" :> List(<<Str("tushare"), Str("openai")>>)) @@
         ("enabled" :> Bool(TRUE)))

crypto_config ==
    Dict(("name" :> Str("CRYPTO_MARKET_CONFIG")) @@
         ("description" :> Str("BINANCE_TRADING_CONFIG")) @@
         ("market" :> Str("crypto")) @@
         ("agent_type" :> Str("BaseAgentCrypto")) @@
         ("exchange" :> Str("binance")) @@
         ("date_range" :> Dict(("init_date" :> Str("2025-10-01")) @@
                               ("end_date" :> Str("2025-10-21")))) @@
         ("models" :> DefaultModels) @@
         ("agent_config" :> Dict(("max_steps" :> Num(30)) @@ ("max_retries" :> Num(3)) @@
                                 ("base_delay" :> Float("1.0")) @@
                                 ("initial_cash" :> Float("10000.0")) @@
                                 ("testnet_enabled" :> Bool(TRUE)))) @@
         ("data_source" :> Str("binance")) @@
         ("api_key_required" :>
             List(<<Str("binance"), Str("binance_secret"), Str("openai")>>)) @@
         ("enabled" :> Bool(TRUE)))

\* The files create_default_configs writes, by market.
create_default_configs ==
    ("us" :> us_config) @@ ("cn" :> cn_config) @@ ("crypto" :> crypto_config)

\* The "api_keys" of a new multi-mode config and of the default common settings.
DefaultApiKeys ==
    Dict(("alphavantage" :> Str("YOUR_ALPHAVANTAGE_API_KEY")) @@
         ("tushare" :> Str("YOUR_TUSHARE_API_KEY")) @@
         ("binance" :> Str("YOUR_BINANCE_API_KEY")) @@
         ("binance_secret" :> Str("YOUR_BINANCE_API_SECRET")) @@
         ("openai" :> Str("YOUR_OPENAI_API_KEY")))

\* The per-mode entry of the multi-mode config.
ModeEntry(name, description, config_file, enabled) ==
    Dict(("name" :> Str(name)) @@ ("description" :> Str(description)) @@
         ("config_file" :> Str(config_file)) @@ ("enabled" :> Bool(enabled)))

\* The document create_multi_mode_config writes for the enabled modes.
create_multi_mode_config(enabled_modes) ==
    LET enabled(mode) == \E i \in 1..Len(enabled_modes) : enabled_modes[i] = mode
    IN Dict(("name" :> Str("AI-Trader MULTI_MARKET_CONFIG")) @@
            ("description" :> Str("MULTI_MARKET_TRADING_SYSTEM")) @@
            ("version" :> Str("1.0.0")) @@
            ("active_modes" :> List([i \in 1..Len(enabled_modes) |-> Str(enabled_modes[i])])) @@
            ("mode_configs" :>
                Dict(("us" :> ModeEntry("US_MARKET", "NASDAQ100_TRADING",
                                        "us_market_config.json", enabled("us"))) @@
                     ("cn" :> ModeEntry("CN_MARKET", "SSE50_TRADING",
                                        "cn_market_config.json", enabled("cn"))) @@
                     ("crypto" :> ModeEntry("CRYPTO_MARKET", "BINANCE_TRADING",
                                            "crypto_market_config.json",
                                            enabled("crypto"))))) @@
            ("common_settings" :>
                Dict(("api_keys" :> DefaultApiKeys) @@
                     ("parallel_mode" :> Bool(FALSE)) @@
                     ("save_results" :> Bool(TRUE)) @@
                     ("output_format" :> Str("json")) @@
                     ("log_level" :> Str("INFO")))) @@
            ("ui_settings" :>
                Dict(("theme" :> Str("dark")) @@ ("refresh_interval" :> Num(30)) @@
                     ("auto_save" :> Bool(TRUE)) @@
                     ("confirm_before_trade" :> Bool(TRUE)))))

\* json.load succeeds on the file.
Loadable(file) == exists(file) /\ file # Garbage

\* The configs of the markets whose file exists and loads, by market.
get_available_configs ==
    [market \in {m \in config_templates : Loadable(config_files[m])} |-> config_files[market]]

\* The active configuration, or None.
get_active_config == IF Loadable(active_config) THEN active_config ELSE NoFile

\* d.get(key, default), for a dict d.
Get(d, key, default) == IF In(key, d) THEN d.dict[key] ELSE default

\* The common settings of the multi-mode config; the defaults when the file is
\* absent or reading it fails.
get_common_settings ==
    IF Loadable(multi_mode_config) /\ isinstance_dict(multi_mode_config)
    THEN Get(multi_mode_config, "common_settings", EmptyDict)
    ELSE Dict("api_keys" :> DefaultApiKeys)

\* The strings for which startswith("YOUR_") holds, among the API keys in use.
StartsWithYOUR(s) ==
    s \in {"YOUR_ALPHAVANTAGE_API_KEY", "YOUR_TUSHARE_API_KEY", "YOUR_BINANCE_API_KEY",
           "YOUR_BINANCE_API_SECRET", "YOUR_OPENAI_API_KEY"}

required_fields == <<"name", "market", "agent_type">>

\* validate_config without the check of the required fields.
validate_config_Lenient(market, config) ==
    Return([valid |-> TRUE, errors |-> <<>>, warnings |-> <<>>])

\* The validation result of a config (a dict): the missing required fields are
\* the errors, the API keys not configured are the warnings.
validate_config(market, config) ==
    LET errors == SelectSeq(required_fields, LAMBDA field : ~In(field, config))
        api_keys == Get(get_common_settings, "api_keys", EmptyDict)
        key_names == config.dict["api_key_required"]
        unset(key_name) ==
            \/ ~In(key_name.str, api_keys)
            \/ StartsWithYOUR(api_keys.dict[key_name.str].str)
    IN IF ~In("api_key_required", config)
       THEN Return([valid |-> Len(errors) = 0, errors |-> errors, warnings |-> <<>>])
       ELSE IF ~isinstance_list(key_names)
       THEN Raise("TypeError", "api_key_required")
       ELSE IF \E i \in 1..Len(key_names.list) :
                   /\ In(key_names.list[i].str, api_keys)
                   /\ ~isinstance_str(api_keys.dict[key_names.list[i].str])
       THEN Raise("AttributeError", "startswith")
       ELSE Return([valid |-> Len(errors) = 0, errors |-> errors,
                    warnings |-> SelectSeq(key_names.list, unset)])

\* The document set_active_config writes to active_config.json.
set_active_config(market, config) ==
    Dict(("active_market" :> Str(market)) @@ ("config" :> config) @@
         ("timestamp" :> Num(NowSeconds)))

\* base_dict after _deep_update(base_dict, update_dict).
RECURSIVE deep_update(_, _)
deep_update(base_dict, update_dict) ==
    Dict([key \in DOMAIN base_dict.dict \cup DOMAIN update_dict.dict |->
            IF key \notin DOMAIN update_dict.dict
            THEN base_dict.dict[key]
            ELSE IF /\ isinstance_dict(update_dict.dict[key])
                    /\ key \in DOMAIN base_dict.dict
                    /\ isinstance_dict(base_dict.dict[key])
                 THEN deep_update(base_dict.dict[key], update_dict.dict[key])
                 ELSE update_dict.dict[key]])

\* local_quickstart.json after _update_local_quickstart(market).
update_local_quickstart(market) ==
    IF Loadable(local_quickstart) /\ isinstance_dict(local_quickstart)
    THEN Dict([key \in DOMAIN local_quickstart.dict \cup {"mode", "last_switch_time"} |->
                 CASE key = "mode" -> Str(market)
                   [] key = "last_switch_time" -> Num(clock)
                   [] OTHER -> local_quickstart.dict[key]])
    ELSE local_quickstart

\* switch_to_market(market, validate): the value returned and the two files it
\* writes.  The local variable validation is bound only when validate is true;
\* the closing report reads it, and the UnboundLocalError of that read is
\* caught by the handler that returns False.
switch_to_market(market, validate) ==
    LET configs == get_available_configs
        kept == [active_config |-> active_config, local_quickstart |-> local_quickstart]
    IN IF market \notin DOMAIN configs
       THEN [returned |-> FALSE] @@ kept
       ELSE LET config == configs[market]
                validation == validate_config(market, config)
                report == IF validate THEN Return(TRUE)
                          ELSE Raise("UnboundLocalError", "validation")
            IN IF validate /\ (validation.raised \/ ~validation.val.valid)
               THEN [returned |-> FALSE] @@ kept
               ELSE [returned |-> ~report.raised,
                     active_config |-> set_active_config(market, config),
                     local_quickstart |-> update_local_quickstart(market)]

\* activate_market(market) of the API: the HTTP status and active_config.json.
activate_market(market) ==
    LET configs == get_available_configs
    IN IF market \notin DOMAIN configs
       THEN [status |-> 404, success |-> FALSE, active_config |-> active_config]
       ELSE LET config == configs[market]
                validation == validate_config(market, config)
            IN IF validation.raised
               THEN [status |-> 500, success |-> FALSE, active_config |-> active_config]
               ELSE IF ~validation.val.valid
               THEN [status |-> 400, success |-> FALSE, active_config |-> active_config]
               ELSE [status |-> 200, success |-> TRUE,
                     active_config |-> set_active_config(market, config)]

\* update_config that also refreshes the snapshot in active_config.json.
update_config_Refreshing(market, updates) ==
    IF market \notin config_templates \/ ~exists(config_files[market])
    THEN [out |-> Raise("ValueError", <<"NO_CONFIG_FILE_FOR_MARKET", market>>),
          config_files |-> config_files, active_config |-> active_config]
    ELSE IF config_files[market] = Garbage
    THEN [out |-> Raise("JSONDecodeError", market),
          config_files |-> config_files, active_config |-> active_config]
    ELSE LET config == deep_update(config_files[market], updates)
         IN [out |-> Return(config),
             config_files |-> [config_files EXCEPT ![market] = config],
             active_config |-> IF Loadable(active_config)
                               THEN set_active_config(market, config)
                               ELSE active_config]

\* update_config that stores the updates in place of the config.
update_config_Replacing(market, updates) ==
    IF market \notin config_templates \/ ~exists(config_files[market])
    THEN [out |-> Raise("ValueError", <<"NO_CONFIG_FILE_FOR_MARKET", market>>),
          config_files |-> config_files, active_config |-> active_config]
    ELSE IF config_files[market] = Garbage
    THEN [out |-> Raise("JSONDecodeError", market),
          config_files |-> config_files, active_config |-> active_config]
    ELSE [out |-> Return(updates),
          config_files |-> [config_files EXCEPT ![market] = updates],
          active_config |-> active_config]

\* update_config(market, updates): its outcome and the files after it.
update_config(market, updates) ==
    IF market \notin config_templates \/ ~exists(config_files[market])
    THEN [out |-> Raise("ValueError", <<"NO_CONFIG_FILE_FOR_MARKET", market>>),
          config_files |-> config_files, active_config |-> active_config]
    ELSE IF config_files[market] = Garbage
    THEN [out |-> Raise("JSONDecodeError", market),
          config_files |-> config_files, active_config |-> active_config]
    ELSE LET config == deep_update(config_files[market], updates)
         IN [out |-> Return(config),
             config_files |-> [config_files EXCEPT ![market] = config],
             active_config |-> active_config]

\* import_config that stores the imported config before validating it.
import_config_StoreFirst(market, input_file) ==
    IF market \notin config_templates
    THEN [out |-> Raise("ValueError", <<"UNSUPPORTED_MARKET", market>>),
          config_files |-> config_files]
    ELSE IF ~exists(input_file)
    THEN [out |-> Raise("ValueError", "IMPORT_FILE_MISSING"), config_files |-> config_files]
    ELSE IF input_file = Garbage
    THEN [out |-> Raise("JSONDecodeError", "input_file"), config_files |-> config_files]
    ELSE LET validation == validate_config(market, input_file)
             stored == [config_files EXCEPT ![market] = input_file]
         IN IF validation.raised
            THEN [out |-> validation, config_files |-> stored]
            ELSE IF ~validation.val.valid
            THEN [out |-> Raise("ValueError", <<"VALIDATION_FAILED", validation.val.errors>>),
                  config_files |-> stored]
            ELSE [out |-> Return(input_file), config_files |-> stored]

\* import_config(market, input_file), for the content of the input file: its
\* outcome and the config files after it.
import_config(market, input_file) ==
    IF market \notin config_templates
    THEN [out |-> Raise("ValueError", <<"UNSUPPORTED_MARKET", market>>),
          config_files |-> config_files]
    ELSE IF ~exists(input_file)
    THEN [out |-> Raise("ValueError", "IMPORT_FILE_MISSING"), config_files |-> config_files]
    ELSE IF input_file = Garbage
    THEN [out |-> Raise("JSONDecodeError", "input_file"), config_files |-> config_files]
    ELSE LET validation == validate_config(market, input_file)
         IN IF validation.raised
            THEN [out |-> validation, config_files |-> config_files]
            ELSE IF ~validation.val.valid
            THEN [out |-> Raise("ValueError", <<"VALIDATION_FAILED", validation.val.errors>>),
                  config_files |-> config_files]
            ELSE [out |-> Return(input_file),
                  config_files |-> [config_files EXCEPT ![market] = input_file]]

\* The markets asked for: two with a config file name, one without.  The file of
\* "cn" is the file of a market no call names.
MarketInputs == {"us", "crypto", "forex"}

\* The updates passed to update_config: a top-level key replaced, and a key of
\* a nested dict replaced.
UpdateInputs ==
    {Dict("name" :> Str("renamed")),
     Dict("agent_config" :> Dict("max_steps" :> Num(5)))}

\* A config with the required fields and nothing else.
MinimalConfig ==
    Dict(("name" :> Str("imported")) @@ ("market" :> Str("crypto")) @@
         ("agent_type" :> Str("BaseAgentCrypto")))

\* A config without the required field agent_type.
ConfigWithoutAgentType ==
    Dict(("name" :> Str("imported")) @@ ("market" :> Str("crypto")))

\* The input file of import_config: absent, not JSON, a valid config, a config
\* lacking a required field.
ImportInputs == {NoFile, Garbage, MinimalConfig, ConfigWithoutAgentType}

\* config with one key deleted.
Without(config, key) == Dict([k \in DOMAIN config.dict \ {key} |-> config.dict[k]])

\* What the file of a market may hold when the program starts: nothing, the
\* default config, the default config without its name, text that is not JSON.
FileInputs(market) ==
    {NoFile, create_default_configs[market],
     Without(create_default_configs[market], "name"), Garbage}

\* The files as an operation finds them.
DiskNow ==
    [config_files |-> config_files, multi_mode_config |-> multi_mode_config,
     active_config |-> active_config, local_quickstart |-> local_quickstart]

Agent == <<trading_pairs, precision_config, risk_config, testnet_enabled, issued>>

CreateDefaultConfigs ==
    /\ Idle
    /\ call' = [op |-> "create_default_configs", disk |-> DiskNow]
    /\ ret' = Result("create_default_configs", Return(create_default_configs))
    /\ config_files' = create_default_configs
    /\ UNCHANGED <<Agent, clock, multi_mode_config, active_config, local_quickstart, Exchange>>

CreateMultiModeConfig ==
    /\ Idle
    /\ LET multi_config == create_multi_mode_config(<<"us", "cn", "crypto">>)
       IN /\ call' = [op |-> "create_multi_mode_config", disk |-> DiskNow]
          /\ ret' = Result("create_multi_mode_config", Return(multi_config))
          /\ multi_mode_config' = multi_config
    /\ UNCHANGED <<Agent, clock, config_files, active_config, local_quickstart, Exchange>>

SwitchToMarket ==
    /\ Idle
    /\ \E market \in MarketInputs, validate \in BOOLEAN :
          LET result == switch_to_market(market, validate)
          IN /\ call' = [op |-> "switch_to_market", market |-> market,
                         validate |-> validate, disk |-> DiskNow]
             /\ ret' = Result("switch_to_market", Return(result.returned))
             /\ active_config' = result.active_config
             /\ local_quickstart' = result.local_quickstart
    /\ UNCHANGED <<Agent, clock, config_files, multi_mode_config, Exchange>>

ActivateMarket ==
    /\ Idle
    /\ \E market \in MarketInputs :
          LET result == activate_market(market)
          IN /\ call' = [op |-> "activate_market", market |-> market, disk |-> DiskNow]
             /\ ret' = Result("activate_market",
                              Return([status |-> result.status, success |-> result.success]))
             /\ active_config' = result.active_config
    /\ UNCHANGED <<Agent, clock, config_files, multi_mode_config, local_quickstart, Exchange>>

UpdateConfig ==
    /\ Idle
    /\ \E market \in MarketInputs, updates \in UpdateInputs :
          LET result == update_config(market, updates)
          IN /\ call' = [op |-> "update_config", market |-> market, updates |-> updates,
                         disk |-> DiskNow]
             /\ ret' = Result("update_config", result.out)
             /\ config_files' = result.config_files
             /\ active_config' = result.active_config
    /\ UNCHANGED <<Agent, clock, multi_mode_config, local_quickstart, Exchange>>

ImportConfig ==
    /\ Idle
    /\ \E market \in MarketInputs, input_file \in ImportInputs :
          LET result == import_config(market, input_file)
          IN /\ call' = [op |-> "import_config", market |-> market,
                         input_file |-> input_file, disk |-> DiskNow]
             /\ ret' = Result("import_config", result.out)
             /\ config_files' = result.config_files
    /\ UNCHANGED <<Agent, clock, multi_mode_config, active_config, local_quickstart, Exchange>>

\* A configuration directory as the switcher or the API may find it.
ActivationInit ==
    /\ trading_pairs = InitTradingPairs
    /\ precision_config = InitPrecisionConfig
    /\ risk_config = InitRiskConfig
    /\ testnet_enabled = TRUE
    /\ clock = 0
    /\ call = NoCall
    /\ ret = NoResult
    /\ issued = <<>>
    /\ \E us \in FileInputs("us"), crypto \in FileInputs("crypto") :
          config_files = ("us" :> us) @@ ("cn" :> cn_config) @@ ("crypto" :> crypto)
    /\ multi_mode_config \in {NoFile, create_multi_mode_config(<<"us", "cn", "crypto">>)}
    /\ active_config = NoFile
    /\ local_quickstart \in {NoFile, Dict("mode" :> Str("us"))}
    /\ NoOrders

ActivationNext ==
    \/ SwitchToMarket
    \/ ActivateMarket
    \/ TakeResult
    \/ Tick

\* Markets are activated, from the command line and through the API.
ActivationSpec == ActivationInit /\ [][ActivationNext]_vars

StoreNext ==
    \/ CreateDefaultConfigs
    \/ CreateMultiModeConfig
    \/ UpdateConfig
    \/ ImportConfig
    \/ SwitchToMarket
    \/ TakeResult

\* A directory without files, or one whose only file is a us config that lacks
\* its name.
StoreInit ==
    /\ trading_pairs = InitTradingPairs
    /\ precision_config = InitPrecisionConfig
    /\ risk_config = InitRiskConfig
    /\ testnet_enabled = TRUE
    /\ clock = 0
    /\ call = NoCall
    /\ ret = NoResult
    /\ issued = <<>>
    /\ \E us \in {NoFile, Without(us_config, "name")} :
          config_files = ("us" :> us) @@ ("cn" :> NoFile) @@ ("crypto" :> NoFile)
    /\ multi_mode_config = NoFile
    /\ active_config = NoFile
    /\ local_quickstart = NoFile
    /\ NoOrders

\* The stored configs are created, updated, imported and activated.
StoreSpec == StoreInit /\ [][StoreNext]_vars

(***************************************************************************)
(* Claims about the configuration manager and the switcher.                 *)
(***************************************************************************)
\* The active configuration is the document set_active_config writes for the
\* market of the call and the config stored for it.
ActiveSetToRequested ==
    /\ call.market \in config_templates
    /\ Loadable(config_files[call.market])
    /\ active_config = set_active_config(call.market, config_files[call.market])

\* C23: when switch_to_market returns False, for either value of validate,
\* active_config.json is what it was before the call; switch_to_market returns
\* True exactly when active_config.json was set to the requested market.
C23_FalseLeavesActiveConfig ==
    Called("switch_to_market") =>
        /\ ret.val = FALSE => active_config = call.disk.active_config
        /\ ret.val = TRUE <=> ActiveSetToRequested

\* An unvalidated switch to crypto in a directory without active configuration:
\* False is returned and active_config.json names crypto.
C23_UnvalidatedSwitchWritesAndFails ==
    /\ Called("switch_to_market")
    /\ call.market = "crypto"
    /\ call.validate = FALSE
    /\ call.disk.config_files["crypto"] = crypto_config
    /\ call.disk.active_config = NoFile
    /\ ret.val = FALSE
    /\ active_config = set_active_config("crypto", crypto_config)

\* The call in progress went through a path that validates the config.
ValidatingPath ==
    \/ Called("activate_market")
    \/ Called("switch_to_market") /\ call.validate

\* The config is a dict with the three required fields.
HasRequiredFields(config) ==
    /\ isinstance_dict(config)
    /\ \A field \in {"name", "market", "agent_type"} : In(field, config)

\* C26: when a validating path (activate_market, switch_to_market with
\* validate=True) changes active_config.json, the market it names is one of
\* us/cn/crypto whose config file exists, and the embedded config is that file's
\* config and has the fields name, market and agent_type; when the market's
\* config is missing or invalid, active_config.json is what it was.
C26_ValidatedActivationIsValid ==
    ValidatingPath =>
        /\ active_config # call.disk.active_config =>
              /\ call.market \in config_templates
              /\ exists(call.disk.config_files[call.market])
              /\ active_config.dict["active_market"] = Str(call.market)
              /\ active_config.dict["config"] = call.disk.config_files[call.market]
              /\ HasRequiredFields(active_config.dict["config"])
        /\ (\/ call.market \notin config_templates
            \/ ~Loadable(call.disk.config_files[call.market])
            \/ ~HasRequiredFields(call.disk.config_files[call.market]))
              => active_config = call.disk.active_config

\* The API activates crypto: status 200 and the default crypto config embedded.
C26_CryptoActivatedThroughApi ==
    /\ Called("activate_market")
    /\ call.market = "crypto"
    /\ call.disk.active_config = NoFile
    /\ ret.val.status = 200
    /\ active_config = set_active_config("crypto", crypto_config)

\* A validated switch to a market whose config lacks its name is refused.
C26_InvalidConfigRefused ==
    /\ Called("switch_to_market")
    /\ call.validate
    /\ call.market = "us"
    /\ call.disk.config_files["us"] = Without(us_config, "name")
    /\ ret.val = FALSE
    /\ active_config = call.disk.active_config

\* validate_config reports the stored config of the market as valid.
StoredValid(file, market) ==
    /\ Loadable(file)
    /\ isinstance_dict(file)
    /\ ~validate_config(market, file).raised
    /\ validate_config(market, file).val.valid

\* C27: a stored config that validate_config reports as valid is still reported
\* as valid after every update_config and every import_config, successful or
\* failed.
C27_ValidityPreserved ==
    (Called("update_config") \/ Called("import_config")) =>
        \A market \in config_templates :
            StoredValid(call.disk.config_files[market], market)
                => /\ StoredValid(config_files[market], market)
                   /\ HasRequiredFields(config_files[market])

\* max_steps of the us config is updated: the other keys of agent_config and the
\* required fields are kept.
C27_NestedKeyReplaced ==
    /\ Called("update_config")
    /\ call.market = "us"
    /\ call.updates = Dict("agent_config" :> Dict("max_steps" :> Num(5)))
    /\ call.disk.config_files["us"] = us_config
    /\ config_files["us"].dict["agent_config"].dict["max_steps"] = Num(5)
    /\ config_files["us"].dict["agent_config"].dict["max_retries"] = Num(3)
    /\ StoredValid(config_files["us"], "us")

\* The import is one the claim calls failing: the market has no config file
\* name, the input file is missing, or the imported config lacks a field.
ImportMustFail ==
    \/ call.market \notin config_templates
    \/ ~exists(call.input_file)
    \/ Loadable(call.input_file) /\ ~HasRequiredFields(call.input_file)

\* C28: an import_config for an unsupported market, a missing input file or a
\* config lacking a required field raises; an import_config that raises leaves
\* every config file as it was; a config file is replaced only by the imported
\* config, and only when validate_config reports that config as valid.
C28_FailedImportKeepsStoredConfig ==
    Called("import_config") =>
        /\ ImportMustFail => ret.raised
        /\ ret.raised => config_files = call.disk.config_files
        /\ config_files # call.disk.config_files =>
              /\ ~ret.raised
              /\ validate_config(call.market, call.input_file).val.valid
              /\ config_files = [call.disk.config_files EXCEPT ![call.market] = call.input_file]

\* A config without agent_type is imported over the default crypto config.
C28_InvalidImportRejected ==
    /\ Called("import_config")
    /\ call.market = "crypto"
    /\ call.input_file = ConfigWithoutAgentType
    /\ call.disk.config_files["crypto"] = crypto_config
    /\ ret.raised
    /\ ret.val.type = "ValueError"
    /\ config_files["crypto"] = crypto_config

\* A valid config is imported over the default crypto config.
C28_ValidImportStored ==
    /\ Called("import_config")
    /\ call.market = "crypto"
    /\ call.input_file = MinimalConfig
    /\ call.disk.config_files["crypto"] = crypto_config
    /\ ~ret.raised
    /\ config_files["crypto"] = MinimalConfig

\* C29: update_config(market, updates) leaves the config files of the other
\* markets, the multi-mode config, the active configuration and
\* local_quickstart.json as they were; for an unknown market or a missing config
\* file it raises, and when it raises no file has changed.
C29_UpdateChangesOneFile ==
    Called("update_config") =>
        /\ \A market \in config_templates \ {call.market} :
              config_files[market] = call.disk.config_files[market]
        /\ multi_mode_config = call.disk.multi_mode_config
        /\ active_config = call.disk.active_config
        /\ local_quickstart = call.disk.local_quickstart
        /\ (call.market \notin config_templates \/ ~exists(call.disk.config_files[call.market]))
              => ret.raised /\ ret.val.type = "ValueError"
        /\ ret.raised => config_files = call.disk.config_files

\* The active market crypto is renamed: the stored config has the new name, the
\* active configuration the name it had at activation.
C29_ActiveSnapshotKept ==
    /\ Called("update_config")
    /\ call.market = "crypto"
    /\ call.updates = Dict("name" :> Str("renamed"))
    /\ call.disk.active_config = set_active_config("crypto", crypto_config)
    /\ config_files["crypto"].dict["name"] = Str("renamed")
    /\ config_files["cn"] = cn_config
    /\ active_config.dict["config"].dict["name"] = Str("CRYPTO_MARKET_CONFIG")

\* update_config for a market without config file name.
C29_UnknownMarketRaises ==
    /\ Called("update_config")
    /\ call.market = "forex"
    /\ ret.raised
    /\ Disk = <<call.disk.config_files, call.disk.multi_mode_config,
               call.disk.active_config, call.disk.local_quickstart>>

(***************************************************************************)
(* The order tool of agent_tools/tool_binance.py.  create_order_calls is    *)
(* the sequence of parameter sets passed to client.create_order; the reply   *)
(* of the exchange to a call is an input of the operation.                   *)
(***************************************************************************)
MaxSubmitted == 2

\* The keyword arguments of client.create_order.
order_params(symbol, side, type_, quantity, price, time_in_force) ==
    LET base == [symbol |-> symbol, side |-> side, type |-> type_, quantity |-> quantity,
                 timeInForce |-> time_in_force]
    IN IF type_ = "LIMIT" /\ price # PyNone
       THEN [params |-> base, price |-> <<price>>]
       ELSE [params |-> base, price |-> <<>>]

\* What client.create_order may do with an order: return the order the
\* exchange created, raise one of the two exceptions the tool handles, or raise
\* another exception.
Replies(side, type_, quantity) ==
    {[kind |-> "order",
      order |-> [orderId |-> Len(create_order_calls) + 1, clientOrderId |-> "client-id",
                 transactTime |-> 1000 * NowSeconds, price |-> Fin(0, 0),
                 origQty |-> quantity, executedQty |-> quantity, status |-> "FILLED",
                 side |-> side, type |-> type_]],
     [kind |-> "BinanceAPIException"],
     [kind |-> "BinanceOrderException"],
     [kind |-> "ConnectionError"]}

\* Lines 268-307: the order is sent, and the reply is turned into the result.
submit_order(symbol, side, type_, quantity, price, time_in_force, reply) ==
    LET sent == <<order_params(symbol, side, type_, quantity, price, time_in_force)>>
    IN CASE reply.kind = "order" ->
              [calls |-> sent,
               out |-> Return([symbol |-> symbol,
                               order_id |-> reply.order.orderId,
                               client_order_id |-> reply.order.clientOrderId,
                               transact_time |-> reply.order.transactTime,
                               price |-> FloatOfDecimal(reply.order.price),
                               orig_qty |-> FloatOfDecimal(reply.order.origQty),
                               executed_qty |-> FloatOfDecimal(reply.order.executedQty),
                               status |-> reply.order.status,
                               side |-> reply.order.side,
                               type |-> reply.order.type,
                               message |-> IF BINANCE_TESTNET THEN "ORDER_CREATED"
                                           ELSE "REAL_ORDER_CREATED"])]
         [] reply.kind \in {"BinanceAPIException", "BinanceOrderException"} ->
              [calls |-> sent,
               out |-> Return([symbol |-> symbol, error |-> reply.kind, status |-> "error"])]
         [] OTHER ->
              [calls |-> sent, out |-> Raise(reply.kind, "create_order")]

\* place_binance_order without the check of the network.
place_binance_order_Unchecked(symbol, side, type_, quantity, price, time_in_force, reply) ==
    submit_order(symbol, side, type_, quantity, price, time_in_force, reply)

\* place_binance_order: the calls it makes to client.create_order and its outcome.
place_binance_order(symbol, side, type_, quantity, price, time_in_force, reply) ==
    IF ~BINANCE_TESTNET
    THEN [calls |-> <<>>,
          out |-> Return([warning |-> "MAINNET_TRADING_USES_REAL_FUNDS",
                          status |-> "cancelled"])]
    ELSE submit_order(symbol, side, type_, quantity, price, time_in_force, reply)

BinanceSymbols == {"BTCUSDT", "ETHUSDT"}

BinanceSides == {"BUY", "SELL"}

BinanceTypes == {"MARKET", "LIMIT"}

BinanceQuantities == {Fin(1, -3), Fin(1, 0)}

\* price: None is the default of the parameter.
BinancePrices == {PyNone, Fin(50000, 0)}

\* time_in_force: "GTC" is the default of the parameter.
TimeInForceInputs == {"GTC", "IOC"}

PlaceBinanceOrder ==
    /\ Idle
    /\ Len(create_order_calls) < MaxSubmitted
    /\ \E symbol \in BinanceSymbols, side \in BinanceSides, type_ \in BinanceTypes,
          quantity \in BinanceQuantities, price \in BinancePrices,
          time_in_force \in TimeInForceInputs :
          \E reply \in Replies(side, type_, quantity) :
             LET result == place_binance_order(symbol, side, type_, quantity, price,
                                               time_in_force, reply)
             IN /\ call' = [op |-> "place_binance_order", symbol |-> symbol, side |-> side,
                            type_ |-> type_, quantity |-> quantity, price |-> price,
                            time_in_force |-> time_in_force]
                /\ ret' = Result("place_binance_order", result.out)
                /\ create_order_calls' = create_order_calls \o result.calls
    /\ UNCHANGED <<Agent, clock, Disk, BINANCE_TESTNET>>

\* The module is loaded with BINANCE_TESTNET read from the environment.
BinanceInit ==
    /\ trading_pairs = InitTradingPairs
    /\ precision_config = InitPrecisionConfig
    /\ risk_config = InitRiskConfig
    /\ testnet_enabled = TRUE
    /\ clock = 0
    /\ call = NoCall
    /\ ret = NoResult
    /\ issued = <<>>
    /\ NoFiles
    /\ BINANCE_TESTNET \in BOOLEAN
    /\ create_order_calls = <<>>

BinanceNext ==
    \/ PlaceBinanceOrder
    \/ TakeResult
    \/ Tick

BinanceSpec == BinanceInit /\ [][BinanceNext]_vars

C24_TestnetLimitOrderSent ==
    /\ Called("place_binance_order")
    /\ BINANCE_TESTNET
    /\ call.type_ = "LIMIT"
    /\ call.price = Fin(50000, 0)
    /\ Len(create_order_calls) = 1
    /\ create_order_calls[1].price = <<Fin(50000, 0)>>
    /\ ~ret.raised
    /\ ret.val.status = "FILLED"

====
